---------------------------- MODULE Spec2Model ----------------------------
(***************************************************************************)
(* A model of the face_recog package: the eye-openness analyzer            *)
(* (eye_awareness_analyzer.py), the one-face detector wrapper              *)
(* (mtcnn_face_detector.py), the awakeness checker with its                *)
(* consecutive-frame counter (awakeness_checker.py) and the threshold      *)
(* calibration with its persisted configuration (calibrate_threshold.py).  *)
(*                                                                         *)
(* Conventions.                                                            *)
(*  - A Python call that can raise is an operator returning a record with  *)
(*    a field "raised"; a try/except is a test of that field.              *)
(*  - A float is an exact rational [num, den] (den > 0, lowest terms).     *)
(*    Pixel values are bytes, so every brightness is a ratio of small      *)
(*    integers and the comparisons of the code are decided exactly.        *)
(*  - A keypoint coordinate is a float; it is held in half pixels          *)
(*    (33 stands for 16.5) so that int() has something to truncate.        *)
(*  - A picture is grey-balanced (R = G = B): cv2's RGB2GRAY weights sum   *)
(*    to one, so its grey value is that common value.  Columns left of     *)
(*    "split" hold tone a, the others tone b.                              *)
(***************************************************************************)
EXTENDS Integers, Sequences, FiniteSets, TLC

VARIABLES
    brightness_threshold,         \* AwakenessChecker.brightness_threshold
    eye_analyzer,                 \* AwakenessChecker.eye_analyzer (its fields)
    face_backend,                 \* MTCNNFaceDetector._backend
    consecutive_frames_required,  \* AwakenessChecker.consecutive_frames_required
    consecutive_awake_count,      \* AwakenessChecker.consecutive_awake_count
    call,                         \* the last completed call: arguments and result
    stream_pc,                    \* check_video_stream: where the call stands
    verdicts,                     \* is_awake verdicts of the frames of this stream
    stream_result,                \* what check_video_stream returned
    cal_pc,                       \* calibrate_brightness_threshold: where it stands
    frames_per_state,             \* its argument
    open_eye_brightness,          \* its list of open-eye samples
    closed_eye_brightness,        \* its list of closed-eye samples
    brightness_values,            \* _capture_brightness_frames: samples of the phase
    frames_captured,              \* _capture_brightness_frames: frames that counted
    cal_frame,                    \* what the last captured frame was and did
    cal_result,                   \* what calibrate_brightness_threshold returned/raised
    camera_ok,                    \* cap.read() gives frames (ret is True)
    pending_key,                  \* the key pressed that cv2.waitKey has not yet read
    config                        \* the file threshold_config.txt

checkerVars == <<brightness_threshold, eye_analyzer, face_backend,
                 consecutive_frames_required, consecutive_awake_count>>
streamVars  == <<stream_pc, verdicts, stream_result>>
calVars     == <<cal_pc, frames_per_state, open_eye_brightness,
                 closed_eye_brightness, brightness_values, frames_captured,
                 cal_frame, cal_result, camera_ok, pending_key>>
vars        == <<checkerVars, call, streamVars, calVars, config>>

---------------------------------------------------------------------------
(* Arithmetic *)

Min(a, b) == IF a <= b THEN a ELSE b
Max(a, b) == IF a >= b THEN a ELSE b
Abs(a)    == IF a >= 0 THEN a ELSE -a

RECURSIVE GCD(_, _)
GCD(a, b) == IF b = 0 THEN a ELSE GCD(b, a % b)

\* The rational n/d (d > 0) in lowest terms.
Rat(n, d) ==
    LET g == GCD(Abs(n), d)
    IN  IF n = 0 THEN [num |-> 0, den |-> 1]
        ELSE [num |-> n \div g, den |-> d \div g]

RatAdd(p, q) == Rat(p.num * q.den + q.num * p.den, p.den * q.den)
RatSub(p, q) == Rat(p.num * q.den - q.num * p.den, p.den * q.den)
RatDivInt(p, k) == Rat(p.num, p.den * k)
RatLess(p, q) == p.num * q.den < q.num * p.den
\* A variant of RatGreaterInt: the comparison written ">=".
RatGreaterOrEqualInt(p, t) == p.num >= t * p.den

\* p > t for an integer t: the comparison "brightness > threshold".
RatGreaterInt(p, t) == p.num > t * p.den
\* Python's int() of a float: truncation toward zero.
RatTrunc(p) ==
    IF p.num >= 0 THEN p.num \div p.den ELSE -((-p.num) \div p.den)
\* The mathematical floor.
RatFloor(p) == p.num \div p.den

\* int() of a coordinate held in half pixels.
IntOfHalves(v2) == IF v2 >= 0 THEN v2 \div 2 ELSE -((-v2) \div 2)

RECURSIVE SeqProduct(_)
SeqProduct(s) == IF s = <<>> THEN 1 ELSE Head(s) * SeqProduct(Tail(s))

---------------------------------------------------------------------------
(* Pictures: numpy arrays, file paths, None *)

NoneImage == [kind |-> "None", file |-> "none", shape |-> <<>>,
              split |-> 0, a |-> 0, b |-> 0]

NdArray(shape, split, a, b) ==
    [kind |-> "ndarray", file |-> "none", shape |-> shape,
     split |-> split, a |-> a, b |-> b]

\* A path: file is "missing", "unreadable" (cv2.imread gives None) or "ok",
\* and then shape/split/a/b are what cv2.imread decodes (always 3 channels).
PathImage(file, shape, split, a, b) ==
    [kind |-> "str", file |-> file, shape |-> shape,
     split |-> split, a |-> a, b |-> b]

\* numpy's ndarray.size
ArraySize(image) == SeqProduct(image.shape)

\* The grey value of the pixels of column c.
ColumnTone(image, c) == IF c < image.split THEN image.a ELSE image.b

RECURSIVE SumColumns(_, _, _)
SumColumns(image, x1, x2) ==
    IF x1 >= x2 THEN 0
    ELSE ColumnTone(image, x1) + SumColumns(image, x1 + 1, x2)

\* An eye region: its shape and the sum of the grey values of its pixels
\* (the zero padding adds nothing to the sum).
NoRegion == [shape |-> <<>>, sum |-> 0]


---------------------------------------------------------------------------
(* eye_awareness_analyzer.py *)

\* A variant of ExtractEyeRegion: only a box of negative extent is invalid.
ExtractEyeRegionEmptyBoxAllowed(image, eye_center, region_size) ==
    IF image.kind # "ndarray"
    THEN [raised |-> TRUE, exc |-> "AttributeError", region |-> NoRegion]
    ELSE IF Len(image.shape) \notin {2, 3}
    THEN [raised |-> TRUE, exc |-> "ValueError: Image must be 2D or 3D array",
          region |-> NoRegion]
    ELSE
    LET height        == image.shape[1]
        width         == image.shape[2]
        eye_x         == IntOfHalves(eye_center[1])
        eye_y         == IntOfHalves(eye_center[2])
        region_width  == region_size[1]
        region_height == region_size[2]
        half_width    == region_width \div 2
        half_height   == region_height \div 2
        x1 == Max(0, eye_x - half_width)
        y1 == Max(0, eye_y - half_height)
        x2 == Min(width, eye_x + half_width)
        y2 == Min(height, eye_y + half_height)
        channels == IF Len(image.shape) = 3 THEN <<image.shape[3]>> ELSE <<>>
        cropsum  == (y2 - y1) * SumColumns(image, x1, x2)
        padded   == (y2 - y1) < region_height \/ (x2 - x1) < region_width
    IN  IF x2 < x1 \/ y2 < y1
        THEN [raised |-> TRUE, exc |-> "ValueError: Invalid eye region",
              region |-> NoRegion]
        ELSE [raised |-> FALSE, exc |-> "none",
              region |-> [shape |-> (IF padded
                                     THEN <<region_height, region_width>>
                                     ELSE <<y2 - y1, x2 - x1>>) \o channels,
                          sum   |-> cropsum]]

\* A variant of ExtractEyeRegion: the crop is returned as it is, without
\* padding.
ExtractEyeRegionUnpadded(image, eye_center, region_size) ==
    IF image.kind # "ndarray"
    THEN [raised |-> TRUE, exc |-> "AttributeError", region |-> NoRegion]
    ELSE IF Len(image.shape) \notin {2, 3}
    THEN [raised |-> TRUE, exc |-> "ValueError: Image must be 2D or 3D array",
          region |-> NoRegion]
    ELSE
    LET height        == image.shape[1]
        width         == image.shape[2]
        eye_x         == IntOfHalves(eye_center[1])
        eye_y         == IntOfHalves(eye_center[2])
        region_width  == region_size[1]
        region_height == region_size[2]
        half_width    == region_width \div 2
        half_height   == region_height \div 2
        x1 == Max(0, eye_x - half_width)
        y1 == Max(0, eye_y - half_height)
        x2 == Min(width, eye_x + half_width)
        y2 == Min(height, eye_y + half_height)
        channels == IF Len(image.shape) = 3 THEN <<image.shape[3]>> ELSE <<>>
        cropsum  == (y2 - y1) * SumColumns(image, x1, x2)
    IN  IF x2 <= x1 \/ y2 <= y1
        THEN [raised |-> TRUE, exc |-> "ValueError: Invalid eye region",
              region |-> NoRegion]
        ELSE [raised |-> FALSE, exc |-> "none",
              region |-> [shape |-> <<y2 - y1, x2 - x1>> \o channels,
                          sum   |-> cropsum]]

\* EyeAwakenessAnalyzer.extract_eye_region(image, eye_center, region_size):
\* region_size is (width, height), eye_center is (x, y) in half pixels.
ExtractEyeRegion(image, eye_center, region_size) ==
    IF image.kind # "ndarray"
    THEN [raised |-> TRUE, exc |-> "AttributeError", region |-> NoRegion]
    ELSE IF Len(image.shape) \notin {2, 3}
    THEN [raised |-> TRUE, exc |-> "ValueError: Image must be 2D or 3D array",
          region |-> NoRegion]
    ELSE
    LET height        == image.shape[1]
        width         == image.shape[2]
        eye_x         == IntOfHalves(eye_center[1])
        eye_y         == IntOfHalves(eye_center[2])
        region_width  == region_size[1]
        region_height == region_size[2]
        half_width    == region_width \div 2
        half_height   == region_height \div 2
        x1 == Max(0, eye_x - half_width)
        y1 == Max(0, eye_y - half_height)
        x2 == Min(width, eye_x + half_width)
        y2 == Min(height, eye_y + half_height)
        channels == IF Len(image.shape) = 3 THEN <<image.shape[3]>> ELSE <<>>
        cropsum  == (y2 - y1) * SumColumns(image, x1, x2)
        padded   == (y2 - y1) < region_height \/ (x2 - x1) < region_width
    IN  IF x2 <= x1 \/ y2 <= y1
        THEN [raised |-> TRUE, exc |-> "ValueError: Invalid eye region",
              region |-> NoRegion]
        ELSE [raised |-> FALSE, exc |-> "none",
              region |-> [shape |-> (IF padded
                                     THEN <<region_height, region_width>>
                                     ELSE <<y2 - y1, x2 - x1>>) \o channels,
                          sum   |-> cropsum]]

\* A brightness that was not computed.
NoBrightness == [num |-> 0, den |-> 1]

\* EyeAwakenessAnalyzer.calculate_eye_brightness(eye_region): the mean grey
\* value, as a rational.
CalculateEyeBrightness(eye_region) ==
    IF SeqProduct(eye_region.shape) = 0
    THEN [raised |-> TRUE, exc |-> "ValueError: Eye region is empty",
          value |-> NoBrightness]
    ELSE IF Len(eye_region.shape) = 3 /\ eye_region.shape[3] \notin {3, 4}
    THEN [raised |-> TRUE, exc |-> "ValueError: Unsupported number of channels",
          value |-> NoBrightness]
    ELSE LET pixels == IF Len(eye_region.shape) = 3
                       THEN eye_region.shape[1] * eye_region.shape[2]
                       ELSE SeqProduct(eye_region.shape)
         IN  [raised |-> FALSE, exc |-> "none",
              value |-> Rat(eye_region.sum, pixels)]

\* EyeAwakenessAnalyzer.is_eye_open(eye_region), for an analyzer whose
\* brightness_threshold is threshold.
IsEyeOpen(eye_region, threshold) ==
    LET brightness == CalculateEyeBrightness(eye_region)
    IN  IF brightness.raised THEN FALSE
        ELSE RatGreaterInt(brightness.value, threshold)

\* One eye of analyze_both_eyes, once its brightness is computed (or not):
\* the comparison with the threshold.
AnalyzeEyeBrightness(brightness, analyzer) ==
    IF brightness.raised
    THEN [raised |-> TRUE, is_open |-> FALSE, brightness |-> NoBrightness]
    ELSE [raised |-> FALSE,
          is_open |-> RatGreaterInt(brightness.value, analyzer.brightness_threshold),
          brightness |-> brightness.value]

\* One eye of analyze_both_eyes, once its region is extracted (or not).
AnalyzeEyeRegion(eye_region, analyzer) ==
    IF eye_region.raised
    THEN [raised |-> TRUE, is_open |-> FALSE, brightness |-> NoBrightness]
    ELSE AnalyzeEyeBrightness(CalculateEyeBrightness(eye_region.region), analyzer)

\* One eye of analyze_both_eyes: the body of its inner try block.
AnalyzeEye(image, eye_pos, analyzer) ==
    AnalyzeEyeRegion(ExtractEyeRegion(image, eye_pos, analyzer.eye_region_size),
                     analyzer)

EyeClosedDefault == [is_open |-> FALSE, brightness |-> NoBrightness]

\* The dictionary analyze_both_eyes starts from.
EyeResultInit ==
    [left_eye |-> EyeClosedDefault, right_eye |-> EyeClosedDefault,
     both_eyes_open |-> FALSE, analysis_successful |-> FALSE,
     error |-> "None"]

\* A variant of BothEyesOpen: one open eye is enough.
EitherEyeOpen(left_is_open, right_is_open) == left_is_open \/ right_is_open

\* The combination of the two flags at the end of analyze_both_eyes.
BothEyesOpen(left_is_open, right_is_open) == left_is_open /\ right_is_open

\* A variant of CombineEyes: a failure of the right eye is not reported, the
\* eye only counts as closed.
CombineEyesRightUnchecked(left, right) ==
    IF left.raised
    THEN [EyeResultInit EXCEPT !.error = "Left eye analysis failed"]
    ELSE [left_eye  |-> [is_open |-> left.is_open, brightness |-> left.brightness],
          right_eye |-> [is_open |-> right.is_open, brightness |-> right.brightness],
          both_eyes_open |-> left.is_open /\ right.is_open,
          analysis_successful |-> TRUE,
          error |-> "None"]

\* analyze_both_eyes from the outcomes of its two inner try blocks (the right
\* one is not run when the left one raised).
CombineEyes(left, right) ==
    IF left.raised
    THEN [EyeResultInit EXCEPT !.error = "Left eye analysis failed"]
    ELSE IF right.raised
    THEN [EyeResultInit EXCEPT
            !.left_eye = [is_open |-> left.is_open, brightness |-> left.brightness],
            !.error = "Right eye analysis failed"]
    ELSE [left_eye  |-> [is_open |-> left.is_open, brightness |-> left.brightness],
          right_eye |-> [is_open |-> right.is_open, brightness |-> right.brightness],
          both_eyes_open |-> BothEyesOpen(left.is_open, right.is_open),
          analysis_successful |-> TRUE,
          error |-> "None"]

\* EyeAwakenessAnalyzer.analyze_both_eyes(image, left_eye_pos, right_eye_pos).
AnalyzeBothEyes(image, left_eye_pos, right_eye_pos, analyzer) ==
    \* "image is None or image.size == 0"; a str has no attribute size
    IF image.kind # "ndarray" \/ ArraySize(image) = 0
    THEN [EyeResultInit EXCEPT !.error = "Analysis failed"]
    ELSE CombineEyes(AnalyzeEye(image, left_eye_pos, analyzer),
                     AnalyzeEye(image, right_eye_pos, analyzer))

---------------------------------------------------------------------------
(* mtcnn_face_detector.py *)

NoKeypoints == [isNone |-> TRUE, left_eye |-> <<0, 0>>, right_eye |-> <<0, 0>>]

\* The dictionary detect_face starts from (bounding_box and confidence, which
\* nothing downstream reads, are left out).
FaceResultInit == [success |-> FALSE, error |-> "None", keypoints |-> NoKeypoints]

\* MTCNNFaceDetector._load_image(image): whether it raises, and what.
LoadImage(image) ==
    IF image.kind = "str"
    THEN IF image.file = "missing"
         THEN [raised |-> TRUE, exc |-> "FileNotFoundError"]
         ELSE IF image.file = "unreadable"
         THEN [raised |-> TRUE, exc |-> "ValueError"]
         ELSE [raised |-> FALSE, exc |-> "none"]
    ELSE IF image.kind = "ndarray"
    THEN IF Len(image.shape) \notin {2, 3}
         THEN [raised |-> TRUE, exc |-> "ValueError"]
         ELSE IF Len(image.shape) = 3 /\ image.shape[3] \notin {3, 4}
         THEN [raised |-> TRUE, exc |-> "ValueError"]
         ELSE [raised |-> FALSE, exc |-> "none"]
    ELSE [raised |-> TRUE, exc |-> "TypeError"]

\* A variant of ExactlyOneFace: the first of several faces is used.
AtLeastOneFace(faces) == faces >= 1

\* Whether the number of faces the backend found lets detect_face go on.
ExactlyOneFace(faces) == faces = 1

\* MTCNNFaceDetector.detect_face(image).  det is what the MTCNN backend
\* answers for the picture: whether it raises, how many faces it found, and
\* for the first face its landmarks ("full", "partial": a key is missing,
\* "none": no landmarks) with the two eye positions.
DetectFace(backend, image, det) ==
    LET loaded == LoadImage(image)
    IN  IF loaded.raised
        THEN [FaceResultInit EXCEPT
                !.error = IF loaded.exc = "FileNotFoundError"
                          THEN "Image file not found"
                          ELSE IF loaded.exc = "ValueError"
                          THEN "Image processing error"
                          ELSE "Unexpected error during face detection"]
        ELSE IF det.raises
        THEN [FaceResultInit EXCEPT
                !.error = "Unexpected error during face detection"]
        ELSE IF det.faces = 0
        THEN [FaceResultInit EXCEPT !.error = "No face detected in the image"]
        ELSE IF ~ExactlyOneFace(det.faces)
        THEN [FaceResultInit EXCEPT !.error = "Multiple faces detected"]
        ELSE IF backend = "facenet"
        THEN \* points is None: keypoints stay None, success all the same
             [success |-> TRUE, error |-> "None",
              keypoints |-> IF det.landmarks = "none" THEN NoKeypoints
                            ELSE [isNone |-> FALSE, left_eye |-> det.left_eye,
                                  right_eye |-> det.right_eye]]
        ELSE \* tensorflow: keypoints['left_eye'] of a missing key is a KeyError
             IF det.landmarks # "full"
             THEN [FaceResultInit EXCEPT
                     !.error = "Unexpected error during face detection"]
             ELSE [success |-> TRUE, error |-> "None",
                   keypoints |-> [isNone |-> FALSE, left_eye |-> det.left_eye,
                                  right_eye |-> det.right_eye]]

---------------------------------------------------------------------------
(* awakeness_checker.py: the single-frame check *)

\* cv2.imread(image) for a path (None when the file cannot be decoded); an
\* array is used as it is.
ImageArray(image) ==
    IF image.kind = "str"
    THEN IF image.file = "ok"
         THEN NdArray(image.shape, image.split, image.a, image.b)
         ELSE NoneImage
    ELSE image

\* A variant of IsAwakeFromEyes: the two flags combined with "or".
IsAwakeFromEitherEye(eye_result) ==
    IF ~eye_result.analysis_successful
    THEN [raised |-> FALSE, value |-> FALSE]
    ELSE [raised |-> FALSE,
          value |-> eye_result.left_eye.is_open \/ eye_result.right_eye.is_open]

\* Step 5 of is_awake: the verdict from the result of analyze_both_eyes.
IsAwakeFromEyes(eye_result) ==
    IF ~eye_result.analysis_successful
    THEN [raised |-> FALSE, value |-> FALSE]
    ELSE [raised |-> FALSE,
          value |-> eye_result.left_eye.is_open /\ eye_result.right_eye.is_open]

\* Steps 2 to 5 of is_awake, from the result of detect_face.
IsAwakeFromFace(analyzer, img_array, face_result) ==
    IF ~face_result.success
    THEN [raised |-> FALSE, value |-> FALSE]
    ELSE IF img_array.kind = "None"
    THEN [raised |-> FALSE, value |-> FALSE]
    ELSE IF ArraySize(img_array) = 0
    THEN [raised |-> FALSE, value |-> FALSE]
    ELSE IF face_result.keypoints.isNone
    THEN [raised |-> FALSE, value |-> FALSE]
    ELSE IsAwakeFromEyes(AnalyzeBothEyes(img_array,
                                         face_result.keypoints.left_eye,
                                         face_result.keypoints.right_eye,
                                         analyzer))

\* The "except Exception" of is_awake.
IsAwakeCatch(body) ==
    IF body.raised THEN [raised |-> FALSE, value |-> FALSE] ELSE body

\* A variant of IsAwake: no test of success or of the keypoints and no
\* exception handler, so that keypoints['left_eye'] of a detection without
\* keypoints is a TypeError that leaves the call.
IsAwakeUnguarded(backend, analyzer, image, det) ==
    IF DetectFace(backend, image, det).keypoints.isNone
    THEN [raised |-> TRUE, value |-> FALSE]
    ELSE IsAwakeFromEyes(
             AnalyzeBothEyes(ImageArray(image),
                             DetectFace(backend, image, det).keypoints.left_eye,
                             DetectFace(backend, image, det).keypoints.right_eye,
                             analyzer))

\* AwakenessChecker.is_awake(image): [raised, value].
IsAwake(backend, analyzer, image, det) ==
    IsAwakeCatch(IsAwakeFromFace(analyzer, ImageArray(image),
                                 DetectFace(backend, image, det)))

---------------------------------------------------------------------------
(* Bounds and the inputs the calls are tried on *)

MaxFaces    == 2      \* the backend finds 0..MaxFaces faces
MaxRequired == 3      \* consecutive_frames_required ranges over 1..MaxRequired
MaxFrames   == 5      \* frames handled by one check_video_stream call
MaxFramesPerState == 3 \* frames_per_state of a calibration

DefaultThreshold    == 90    \* the threshold used when none is calibrated
DefaultRegionWidth  == 30    \* eye_region_size[0]
DefaultRegionHeight == 20    \* eye_region_size[1]
DefaultFramesRequired == 3   \* consecutive_frames_required

Tones == {0, 90, 91, 255}
RGBShape == <<48, 64, 3>>
\* the tone changes in the middle of the frame
FrameSplit == RGBShape[2] \div 2
\* grey, RGBA, two channels (unsupported), an empty array, a 1-D array
OtherShapes == {<<48, 64>>, <<48, 64, 4>>, <<48, 64, 2>>, <<0, 0, 3>>, <<64>>}

\* What a camera delivers: a non-empty 3-channel array.
CameraFrames == {NdArray(RGBShape, FrameSplit, a, b) : a \in Tones, b \in Tones}

Images ==
    CameraFrames
    \cup {NdArray(sh, FrameSplit, a, b) : sh \in OtherShapes, a \in Tones, b \in Tones}
    \cup {PathImage("ok", RGBShape, FrameSplit, a, b) : a \in Tones, b \in Tones}
    \cup {PathImage("missing", <<>>, 0, 0, 0), PathImage("unreadable", <<>>, 0, 0, 0),
          NoneImage}

\* Eye centres (x, y) in half pixels, for a 64 x 48 frame and a 30 x 20 region:
\* (16.5, 12) inside the left tone, (47, 12) inside the right tone,
\* (-0.5, 12) at the left edge (the crop is padded), (-20, 12) and (16, 100)
\* outside the frame.
EyePositions == {<<33, 24>>, <<94, 24>>, <<-1, 24>>, <<-40, 24>>, <<32, 200>>}

Detection(raises, faces, landmarks, left_eye, right_eye) ==
    [raises |-> raises, faces |-> faces, landmarks |-> landmarks,
     left_eye |-> left_eye, right_eye |-> right_eye]

\* The answers of the MTCNN backend.
Detections ==
    {Detection(TRUE, 0, "none", <<0, 0>>, <<0, 0>>)}
    \cup {Detection(FALSE, n, "full", <<33, 24>>, <<94, 24>>) :
             n \in (0..MaxFaces) \ {1}}
    \cup {Detection(FALSE, 1, lm, <<0, 0>>, <<0, 0>>) : lm \in {"none", "partial"}}
    \cup {Detection(FALSE, 1, "full", l, r) : l \in EyePositions, r \in EyePositions}

NoDetection == Detection(FALSE, 0, "none", <<0, 0>>, <<0, 0>>)

\* Regions handed to is_eye_open directly: 30 x 20 in grey, RGB and RGBA, two
\* channels (unsupported), and an empty one.
EyeRegions ==
    {[shape |-> sh, sum |-> t * DefaultRegionWidth * DefaultRegionHeight] :
        sh \in {<<20, 30>>, <<20, 30, 3>>, <<20, 30, 4>>, <<20, 30, 2>>},
        t \in Tones}
    \cup {[shape |-> <<0, 30, 3>>, sum |-> 0]}

ThresholdArgs == {-1, 0, 90, 255, 256}

---------------------------------------------------------------------------
(* The caller: one call at a time (the program is single-threaded) *)

NoCall ==
    [op |-> "none", image |-> NoneImage, det |-> NoDetection,
     region |-> NoRegion, left_eye_pos |-> <<0, 0>>, right_eye_pos |-> <<0, 0>>,
     face_result |-> FaceResultInit, eye_result |-> EyeResultInit,
     arg |-> 0, frames_arg |-> 0, loaded |-> FALSE,
     eye_center |-> <<0, 0>>, region_size |-> <<0, 0>>, given |-> FALSE,
     exc |-> "none",
     raised |-> FALSE, ret |-> FALSE]

CalRunning ==
    cal_pc \in {"open_wait", "open_capture", "closed_wait", "closed_capture"}
Idle == call.op = "none" /\ stream_pc = "idle" /\ ~CalRunning

\* AwakenessChecker.__init__ with a valid threshold and frame count.
CheckerInit(threshold, required) ==
    /\ brightness_threshold = threshold
    /\ eye_analyzer = [brightness_threshold |-> threshold,
                       eye_region_size |-> <<DefaultRegionWidth, DefaultRegionHeight>>]
    /\ face_backend \in {"facenet", "tensorflow"}
    /\ consecutive_frames_required = required
    /\ consecutive_awake_count = 0

NoCalFrame == [phase |-> "none", read |-> FALSE, det |-> NoDetection,
               face_result |-> FaceResultInit, sampled |-> FALSE]
NoCalResult == [kind |-> "none", error |-> "None", at |-> "none",
                threshold |-> 0, open_avg |-> NoBrightness,
                closed_avg |-> NoBrightness, separation |-> NoBrightness,
                quality |-> "none", saved |-> FALSE]
\* The file threshold_config.txt: whether it exists and can be opened, the
\* keys of its "key=value" lines, those whose value is no number, and the
\* numbers (threshold as written, the others in hundredths).
ConfigKeys == {"threshold", "open_avg", "closed_avg", "separation"}
NoConfig == [exists |-> FALSE, readable |-> FALSE, keys |-> {}, text |-> {},
             threshold |-> 0, open_avg |-> 0, closed_avg |-> 0,
             separation |-> 0]

StreamInit == stream_pc = "idle" /\ verdicts = <<>> /\ stream_result = "none"
CalInit ==
    /\ cal_pc = "idle" /\ frames_per_state = 0
    /\ open_eye_brightness = <<>> /\ closed_eye_brightness = <<>>
    /\ brightness_values = <<>> /\ frames_captured = 0
    /\ cal_frame = NoCalFrame /\ cal_result = NoCalResult
    /\ camera_ok = TRUE /\ pending_key = "none"

---------------------------------------------------------------------------
(* Single calls on a constructed checker *)

Init ==
    /\ CheckerInit(DefaultThreshold, DefaultFramesRequired)
    /\ call = NoCall
    /\ StreamInit /\ CalInit
    /\ config = NoConfig

\* The record of an is_awake call: its arguments, what detect_face and
\* analyze_both_eyes answer for them, and what is_awake returned.
IsAwakeRecord(analyzer, image, det, face, r) ==
    [NoCall EXCEPT
       !.op = "is_awake", !.image = image, !.det = det,
       !.face_result = face,
       !.eye_result = AnalyzeBothEyes(ImageArray(image), face.keypoints.left_eye,
                                      face.keypoints.right_eye, analyzer),
       !.raised = r.raised, !.ret = r.value]

\* checker.is_awake(image)
IsAwakeCall ==
    /\ Idle
    /\ \E image \in Images, det \in Detections :
         call' = IsAwakeRecord(eye_analyzer, image, det,
                               DetectFace(face_backend, image, det),
                               IsAwake(face_backend, eye_analyzer, image, det))
    /\ UNCHANGED <<checkerVars, streamVars, calVars, config>>

\* checker.eye_analyzer.analyze_both_eyes(image, left_eye_pos, right_eye_pos)
AnalyzeBothEyesCall ==
    /\ Idle
    /\ \E image \in Images, l \in EyePositions, r \in EyePositions :
         call' = [NoCall EXCEPT
                    !.op = "analyze_both_eyes", !.image = image,
                    !.left_eye_pos = l, !.right_eye_pos = r,
                    !.eye_result = AnalyzeBothEyes(image, l, r, eye_analyzer)]
    /\ UNCHANGED <<checkerVars, streamVars, calVars, config>>

\* checker.eye_analyzer.is_eye_open(eye_region)
IsEyeOpenCall ==
    /\ Idle
    /\ \E region \in EyeRegions :
         call' = [NoCall EXCEPT
                    !.op = "is_eye_open", !.region = region,
                    !.ret = IsEyeOpen(region, eye_analyzer.brightness_threshold)]
    /\ UNCHANGED <<checkerVars, streamVars, calVars, config>>

\* A variant of SetBrightnessThreshold: the upper bound is not tested.
SetBrightnessThresholdNoUpperBound ==
    /\ Idle
    /\ \E new_threshold \in ThresholdArgs :
         IF ~(0 <= new_threshold)
         THEN /\ call' = [NoCall EXCEPT !.op = "set_brightness_threshold",
                                        !.arg = new_threshold,
                                        !.raised = TRUE]
              /\ UNCHANGED <<brightness_threshold, eye_analyzer>>
         ELSE /\ call' = [NoCall EXCEPT !.op = "set_brightness_threshold",
                                        !.arg = new_threshold]
              /\ brightness_threshold' = new_threshold
              /\ eye_analyzer' = [eye_analyzer EXCEPT
                                    !.brightness_threshold = new_threshold]
    /\ UNCHANGED <<face_backend, consecutive_frames_required,
                   consecutive_awake_count, streamVars, calVars, config>>

\* checker.set_brightness_threshold(new_threshold), which calls
\* eye_analyzer.set_brightness_threshold(new_threshold)
SetBrightnessThreshold ==
    /\ Idle
    /\ \E new_threshold \in ThresholdArgs :
         IF ~(0 <= new_threshold /\ new_threshold <= 255)
         THEN /\ call' = [NoCall EXCEPT !.op = "set_brightness_threshold",
                                        !.arg = new_threshold,
                                        !.raised = TRUE]
              /\ UNCHANGED <<brightness_threshold, eye_analyzer>>
         ELSE /\ call' = [NoCall EXCEPT !.op = "set_brightness_threshold",
                                        !.arg = new_threshold]
              /\ brightness_threshold' = new_threshold
              /\ eye_analyzer' = [eye_analyzer EXCEPT
                                    !.brightness_threshold = new_threshold]
    /\ UNCHANGED <<face_backend, consecutive_frames_required,
                   consecutive_awake_count, streamVars, calVars, config>>

\* The caller takes the result and goes on.
Return ==
    /\ call.op \notin {"none", "calibrate_brightness_threshold"}
    /\ call' = NoCall
    /\ UNCHANGED <<checkerVars, streamVars, calVars, config>>

Next ==
    \/ IsAwakeCall
    \/ AnalyzeBothEyesCall
    \/ IsEyeOpenCall
    \/ SetBrightnessThreshold
    \/ Return

Spec == Init /\ [][Next]_vars

---------------------------------------------------------------------------
(* awakeness_checker.py: check_video_stream and the consecutive counter *)

\* The frames of a monitored stream: a face with both eyes inside the frame,
\* or with one eye outside it, or no single face.
StreamEyePositions == {<<33, 24>>, <<94, 24>>, <<-40, 24>>}
StreamFrames ==
    {NdArray(RGBShape, FrameSplit, a, b) :
        a \in {DefaultThreshold, 255}, b \in {DefaultThreshold, 255}}
StreamDetections ==
    {Detection(TRUE, 0, "none", <<0, 0>>, <<0, 0>>)}
    \cup {Detection(FALSE, n, "full", <<33, 24>>, <<94, 24>>) :
             n \in (0..MaxFaces) \ {1}}
    \cup {Detection(FALSE, 1, "none", <<0, 0>>, <<0, 0>>)}
    \cup {Detection(FALSE, 1, "full", l, r) :
             l \in StreamEyePositions, r \in StreamEyePositions}

RequiredArgs == 0..MaxRequired

\* A variant of NextAwakeCount: a frame that is not awake leaves the count.
NextAwakeCountNoReset(count, is_currently_awake) ==
    IF is_currently_awake THEN count + 1 ELSE count

\* "Update consecutive counter" of check_video_stream.
NextAwakeCount(count, is_currently_awake) ==
    IF is_currently_awake THEN count + 1 ELSE 0

\* A variant of Verified: the comparison written ">".
VerifiedStrict(count, required) == count > required

\* "Check if we've achieved required consecutive awake frames".
Verified(count, required) == count >= required

\* A variant of StreamStart: the counter is not reset.
StreamStartKeepingCount ==
    /\ Idle
    /\ consecutive_awake_count' = consecutive_awake_count
    /\ verdicts' = <<>>
    /\ \E opened \in BOOLEAN :
         IF opened
         THEN /\ stream_pc' = "loop"
              /\ stream_result' = "none"
              /\ call' = NoCall
         ELSE /\ stream_pc' = "idle"
              /\ stream_result' = "False"
              /\ call' = [NoCall EXCEPT !.op = "check_video_stream", !.ret = FALSE]
    /\ UNCHANGED <<brightness_threshold, eye_analyzer, face_backend,
                   consecutive_frames_required, calVars, config>>

\* check_video_stream is called: the counter is reset and the camera is
\* opened, or cannot be opened and the call returns False.
StreamStart ==
    /\ Idle
    /\ consecutive_awake_count' = 0
    /\ verdicts' = <<>>
    /\ \E opened \in BOOLEAN :
         IF opened
         THEN /\ stream_pc' = "loop"
              /\ stream_result' = "none"
              /\ call' = NoCall
         ELSE /\ stream_pc' = "idle"
              /\ stream_result' = "False"
              /\ call' = [NoCall EXCEPT !.op = "check_video_stream", !.ret = FALSE]
    /\ UNCHANGED <<brightness_threshold, eye_analyzer, face_backend,
                   consecutive_frames_required, calVars, config>>

\* What one pass of the loop leaves: the verdict of is_awake on the frame
\* (with what detect_face and analyze_both_eyes said), the new count and
\* whether the call returns (True: verified; False: a quit key) or goes on.
StreamFrameStep(image, det, key, r) ==
    LET count == NextAwakeCount(consecutive_awake_count, r.value)
        frame == [IsAwakeRecord(eye_analyzer, image, det,
                                DetectFace(face_backend, image, det), r)
                    EXCEPT !.image = NoneImage, !.det = NoDetection]
    IN  /\ consecutive_awake_count' = count
        /\ verdicts' = Append(verdicts, r.value)
        /\ IF Verified(count, consecutive_frames_required)
           THEN /\ stream_pc' = "idle"
                /\ stream_result' = "True"
                /\ call' = [frame EXCEPT !.op = "check_video_stream", !.ret = TRUE]
           ELSE IF key \in {"q", "Q", "ESC"}
           THEN /\ stream_pc' = "idle"
                /\ stream_result' = "False"
                /\ call' = [frame EXCEPT !.op = "check_video_stream", !.ret = FALSE]
           ELSE /\ stream_pc' = "loop"
                /\ stream_result' = "none"
                /\ call' = [frame EXCEPT !.op = "stream_frame"]

\* One pass of the loop of check_video_stream on a frame the camera gave.
StreamFrame ==
    /\ stream_pc = "loop"
    /\ Len(verdicts) < MaxFrames
    /\ \E image \in StreamFrames, det \in StreamDetections, key \in {"none", "q"} :
         StreamFrameStep(image, det, key,
                         IsAwake(face_backend, eye_analyzer, image, det))
    /\ UNCHANGED <<brightness_threshold, eye_analyzer, face_backend,
                   consecutive_frames_required, calVars, config>>

\* cap.read() gives no frame: the loop is left and the call returns False.
StreamReadFails ==
    /\ stream_pc = "loop"
    /\ stream_pc' = "idle"
    /\ stream_result' = "False"
    /\ call' = [call EXCEPT !.op = "check_video_stream", !.ret = FALSE]
    /\ UNCHANGED <<checkerVars, verdicts, calVars, config>>

\* A variant of ResetConsecutiveCount: the count is lowered by one.
ResetConsecutiveCountByOne ==
    /\ Idle
    /\ consecutive_awake_count' = Max(0, consecutive_awake_count - 1)
    /\ call' = [NoCall EXCEPT !.op = "reset_consecutive_count"]
    /\ UNCHANGED <<brightness_threshold, eye_analyzer, face_backend,
                   consecutive_frames_required, streamVars, calVars, config>>

\* checker.reset_consecutive_count()
ResetConsecutiveCount ==
    /\ Idle
    /\ consecutive_awake_count' = 0
    /\ call' = [NoCall EXCEPT !.op = "reset_consecutive_count"]
    /\ UNCHANGED <<brightness_threshold, eye_analyzer, face_backend,
                   consecutive_frames_required, streamVars, calVars, config>>

\* A variant of SetConsecutiveFramesRequired: the counter is not reset.
SetConsecutiveFramesRequiredKeepingCount ==
    /\ Idle
    /\ \E new_count \in RequiredArgs :
         IF new_count < 1
         THEN /\ call' = [NoCall EXCEPT !.op = "set_consecutive_frames_required",
                                        !.frames_arg = new_count,
                                        !.raised = TRUE]
              /\ UNCHANGED <<consecutive_frames_required, consecutive_awake_count>>
         ELSE /\ call' = [NoCall EXCEPT !.op = "set_consecutive_frames_required",
                                        !.frames_arg = new_count]
              /\ consecutive_frames_required' = new_count
              /\ consecutive_awake_count' = consecutive_awake_count
    /\ UNCHANGED <<brightness_threshold, eye_analyzer, face_backend,
                   streamVars, calVars, config>>

\* checker.set_consecutive_frames_required(new_count)
SetConsecutiveFramesRequired ==
    /\ Idle
    /\ \E new_count \in RequiredArgs :
         IF new_count < 1
         THEN /\ call' = [NoCall EXCEPT !.op = "set_consecutive_frames_required",
                                        !.frames_arg = new_count,
                                        !.raised = TRUE]
              /\ UNCHANGED <<consecutive_frames_required, consecutive_awake_count>>
         ELSE /\ call' = [NoCall EXCEPT !.op = "set_consecutive_frames_required",
                                        !.frames_arg = new_count]
              /\ consecutive_frames_required' = new_count
              /\ consecutive_awake_count' = 0
    /\ UNCHANGED <<brightness_threshold, eye_analyzer, face_backend,
                   streamVars, calVars, config>>

NextStream ==
    \/ StreamStart
    \/ StreamFrame
    \/ StreamReadFails
    \/ ResetConsecutiveCount
    \/ SetConsecutiveFramesRequired
    \/ Return

SpecStream == Init /\ [][NextStream]_vars

---------------------------------------------------------------------------
(* A session: streams, single-frame checks and the setters in any order *)

\* The frames of a session: a uniform frame at the threshold or above it.
SessionFrames ==
    {NdArray(RGBShape, FrameSplit, t, t) : t \in {DefaultThreshold, 255}}

\* One face with both eyes inside the frame, no face, one face with an eye
\* outside the frame.
SessionDetections ==
    {Detection(FALSE, 1, "full", <<33, 24>>, <<94, 24>>),
     Detection(FALSE, 0, "full", <<33, 24>>, <<94, 24>>),
     Detection(FALSE, 1, "full", <<-40, 24>>, <<94, 24>>)}

\* One pass of the loop of check_video_stream on a frame of the session.
SessionFrame ==
    /\ stream_pc = "loop"
    /\ Len(verdicts) < MaxFrames
    /\ \E image \in SessionFrames, det \in SessionDetections,
          key \in {"none", "q"} :
         StreamFrameStep(image, det, key,
                         IsAwake(face_backend, eye_analyzer, image, det))
    /\ UNCHANGED <<brightness_threshold, eye_analyzer, face_backend,
                   consecutive_frames_required, calVars, config>>

\* A variant of IsAwakeSessionCall: an awake verdict is counted.
IsAwakeSessionCallCounting ==
    /\ Idle
    /\ \E image \in SessionFrames, det \in SessionDetections,
          op \in {"is_awake", "quick_awakeness_test"} :
         /\ call' = [IsAwakeRecord(eye_analyzer, image, det,
                        DetectFace(face_backend, image, det),
                        IsAwake(face_backend, eye_analyzer, image, det))
                       EXCEPT !.op = op]
         /\ consecutive_awake_count' =
               NextAwakeCount(consecutive_awake_count, call'.ret)
    /\ UNCHANGED <<brightness_threshold, eye_analyzer, face_backend,
                   consecutive_frames_required, streamVars, calVars, config>>

\* checker.is_awake(frame), directly (as the loop of run_awakeness_test does)
\* or through checker.quick_awakeness_test(frame), which returns its verdict.
IsAwakeSessionCall ==
    /\ Idle
    /\ \E image \in SessionFrames, det \in SessionDetections,
          op \in {"is_awake", "quick_awakeness_test"} :
         call' = [IsAwakeRecord(eye_analyzer, image, det,
                     DetectFace(face_backend, image, det),
                     IsAwake(face_backend, eye_analyzer, image, det))
                    EXCEPT !.op = op]
    /\ UNCHANGED <<checkerVars, streamVars, calVars, config>>

NextSession ==
    \/ StreamStart
    \/ SessionFrame
    \/ StreamReadFails
    \/ ResetConsecutiveCount
    \/ SetConsecutiveFramesRequired
    \/ IsAwakeSessionCall
    \/ Return

SpecSession == Init /\ [][NextSession]_vars

---------------------------------------------------------------------------
(* calibrate_threshold.py: calibrate_brightness_threshold *)

\* (the sum of the tail is computed once, then added to the head)
RECURSIVE RatSum(_)
RatSum(values) ==
    IF values = <<>> THEN Rat(0, 1)
    ELSE RatAdd(Head(values), RatSum(Tail(values)))

\* statistics.mean of a non-empty list
Mean(values) == RatDivInt(RatSum(values), Len(values))

\* round(), to the nearest integer and to the even one on a tie
RatRound(p) ==
    LET q == p.num \div p.den
        twice == 2 * (p.num - q * p.den)
    IN  IF twice < p.den THEN q
        ELSE IF twice > p.den THEN q + 1
        ELSE IF q % 2 = 0 THEN q ELSE q + 1

\* f"{value:.2f}", as a number of hundredths
Format2f(value) == RatRound(Rat(value.num * 100, value.den))

MinSamples == 5
SafetyMargin == 5
MinThreshold == 30
MaxThreshold == 200

\* A variant of InsufficientData: the floor is applied to the frames, two
\* values each.
InsufficientDataCountingFrames(open_values, closed_values) ==
    Len(open_values) \div 2 < MinSamples \/ Len(closed_values) \div 2 < MinSamples

\* A variant of InsufficientData: four values in each list are enough.
InsufficientDataBelowFour(open_values, closed_values) ==
    Len(open_values) < MinSamples - 1 \/ Len(closed_values) < MinSamples - 1

\* "Validate we have enough data"
InsufficientData(open_values, closed_values) ==
    Len(open_values) < MinSamples \/ Len(closed_values) < MinSamples

\* A variant of SeparationQuality: the comparisons written ">=".
SeparationQualityFromBound(separation) ==
    IF RatGreaterOrEqualInt(separation, 50) THEN "excellent"
    ELSE IF RatGreaterOrEqualInt(separation, 30) THEN "good"
    ELSE IF RatGreaterOrEqualInt(separation, 15) THEN "moderate"
    ELSE "poor"

\* "Analyze the separation": the message printed before the result is saved.
SeparationQuality(separation) ==
    IF RatGreaterInt(separation, 50) THEN "excellent"
    ELSE IF RatGreaterInt(separation, 30) THEN "good"
    ELSE IF RatGreaterInt(separation, 15) THEN "moderate"
    ELSE "poor"

\* A variant of ClampThreshold: the whole range of a brightness.
ClampThresholdToByte(strict_threshold) == Max(0, Min(255, strict_threshold))

\* "Ensure threshold is within reasonable bounds"
ClampThreshold(strict_threshold) ==
    Max(MinThreshold, Min(MaxThreshold, strict_threshold))

\* recommended_threshold and strict_threshold of calibrate_brightness_threshold
StrictThreshold(open_avg, closed_avg) ==
    ClampThreshold(
        RatTrunc(RatSub(RatDivInt(RatAdd(open_avg, closed_avg), 2),
                        Rat(SafetyMargin, 1))))

\* The content _save_threshold_config writes: the averages and the
\* separation in hundredths.
SavedConfig(threshold, open_avg, closed_avg, separation) ==
    [exists |-> TRUE, readable |-> TRUE, keys |-> ConfigKeys, text |-> {},
     threshold |-> threshold,
     open_avg |-> Format2f(open_avg), closed_avg |-> Format2f(closed_avg),
     separation |-> Format2f(separation)]

\* A file left by an earlier calibration (averages 180.00 and 70.00).
PriorConfig ==
    [exists |-> TRUE, readable |-> TRUE, keys |-> ConfigKeys, text |-> {},
     threshold |-> 120, open_avg |-> 18000, closed_avg |-> 7000,
     separation |-> 11000]

\* The analyzer calibration builds: EyeAwakenessAnalyzer(brightness_threshold=90)
CalAnalyzer ==
    [brightness_threshold |-> DefaultThreshold,
     eye_region_size |-> <<DefaultRegionWidth, DefaultRegionHeight>>]

FramesPerStateArgs == 0..MaxFramesPerState

\* What the camera shows in each phase: evenly lit frames.
PhaseTones(phase) == IF phase = "open" THEN {3, 150, 255} ELSE {0, 60, 255}
CalFrames(phase) ==
    {NdArray(RGBShape, FrameSplit, t, t) : t \in PhaseTones(phase)}

\* What the backend finds in them: no face, several faces, one face without
\* landmarks, one face with both eyes in the frame, one face with an eye out
\* of it.
CalDetections ==
    {Detection(FALSE, n, "full", <<33, 24>>, <<94, 24>>) : n \in 0..MaxFaces}
    \cup {Detection(FALSE, 1, "none", <<0, 0>>, <<0, 0>>),
          Detection(FALSE, 1, "full", <<-40, 24>>, <<94, 24>>)}

NoSample == [sampled |-> FALSE, values |-> <<>>]

\* The try block of _capture_brightness_frames once both brightnesses are
\* computed (or not).
CalSampleFromBrightness(left_brightness, right_brightness) ==
    IF left_brightness.raised \/ right_brightness.raised THEN NoSample
    ELSE [sampled |-> TRUE,
          values |-> <<left_brightness.value, right_brightness.value>>]

\* A variant of CalSampleFromRegions: the brightness of the right eye is
\* stored although the region of the left eye could not be extracted.
CalSampleFromRegionsEachEye(left_eye_region, right_eye_region) ==
    IF right_eye_region.raised THEN NoSample
    ELSE IF left_eye_region.raised
    THEN [sampled |-> TRUE,
          values |-> <<CalculateEyeBrightness(right_eye_region.region).value>>]
    ELSE CalSampleFromBrightness(CalculateEyeBrightness(left_eye_region.region),
                                 CalculateEyeBrightness(right_eye_region.region))

\* The try block once both regions are extracted (or not).
CalSampleFromRegions(left_eye_region, right_eye_region) ==
    IF left_eye_region.raised \/ right_eye_region.raised THEN NoSample
    ELSE CalSampleFromBrightness(CalculateEyeBrightness(left_eye_region.region),
                                 CalculateEyeBrightness(right_eye_region.region))

\* What one frame adds to brightness_values: nothing when detect_face did
\* not succeed or when anything in the try block raises.
CalSample(frame_rgb, face_result) ==
    IF ~face_result.success THEN NoSample
    ELSE IF face_result.keypoints.isNone THEN NoSample
    ELSE CalSampleFromRegions(
             ExtractEyeRegion(frame_rgb, face_result.keypoints.left_eye,
                              CalAnalyzer.eye_region_size),
             ExtractEyeRegion(frame_rgb, face_result.keypoints.right_eye,
                              CalAnalyzer.eye_region_size))

CalRaised(kind, error) ==
    [NoCalResult EXCEPT !.kind = kind, !.error = error, !.at = cal_pc]
CalCall(raised) ==
    [NoCall EXCEPT !.op = "calibrate_brightness_threshold", !.raised = raised]

\* calibrate_brightness_threshold(frames_per_state=...) is called: the
\* detectors are built and the camera is opened, or a RuntimeError is raised.
CalStart ==
    /\ Idle
    /\ cal_pc = "idle"
    /\ \E target \in FramesPerStateArgs,
          outcome \in {"ready", "no detectors", "no camera"} :
         /\ frames_per_state' = target
         /\ IF outcome = "ready"
            THEN /\ cal_pc' = "open_wait"
                 /\ cal_result' = NoCalResult
                 /\ call' = NoCall
            ELSE /\ cal_pc' = "aborted"
                 /\ cal_result' =
                      CalRaised("RuntimeError",
                                IF outcome = "no camera"
                                THEN "Could not open camera"
                                ELSE "Failed to initialize detectors")
                 /\ call' = CalCall(TRUE)
    /\ open_eye_brightness' = <<>>
    /\ closed_eye_brightness' = <<>>
    /\ brightness_values' = <<>>
    /\ frames_captured' = 0
    /\ cal_frame' = NoCalFrame
    /\ UNCHANGED <<checkerVars, streamVars, config, camera_ok, pending_key>>

\* A variant of CalCancelled: the file is opened for writing (and so
\* emptied) before the exception leaves the function.
CalCancelledEmptyingConfig ==
    /\ cal_pc' = "aborted"
    /\ cal_result' = CalRaised("KeyboardInterrupt", "Calibration cancelled by user")
    /\ call' = CalCall(TRUE)
    /\ open_eye_brightness' = <<>>
    /\ closed_eye_brightness' = <<>>
    /\ brightness_values' = <<>>
    /\ frames_captured' = 0
    /\ cal_frame' = NoCalFrame
    /\ config' = NoConfig

\* KeyboardInterrupt("Calibration cancelled by user") leaves
\* _capture_brightness_frames and calibrate_brightness_threshold (through its
\* finally block): the locals of both are gone.
CalCancelled ==
    /\ cal_pc' = "aborted"
    /\ cal_result' = CalRaised("KeyboardInterrupt", "Calibration cancelled by user")
    /\ call' = CalCall(TRUE)
    /\ open_eye_brightness' = <<>>
    /\ closed_eye_brightness' = <<>>
    /\ brightness_values' = <<>>
    /\ frames_captured' = 0
    /\ cal_frame' = NoCalFrame
    /\ config' = config

\* The statements after the finally block, for lists that are long enough:
\* the threshold is computed, _save_threshold_config writes CONFIG_FILE (or
\* cannot open it, and only prints a warning) and the threshold is returned.
CalSave(open_avg, closed_avg) ==
    \E written \in BOOLEAN :
       /\ cal_result' = [kind |-> "returned", error |-> "None", at |-> "none",
                         threshold |-> StrictThreshold(open_avg, closed_avg),
                         open_avg |-> open_avg, closed_avg |-> closed_avg,
                         separation |-> RatSub(open_avg, closed_avg),
                         quality |->
                            SeparationQuality(RatSub(open_avg, closed_avg)),
                         saved |-> written]
       /\ config' = IF written
                    THEN SavedConfig(StrictThreshold(open_avg, closed_avg),
                                     open_avg, closed_avg,
                                     RatSub(open_avg, closed_avg))
                    ELSE config
       /\ call' = CalCall(FALSE)

\* The statements after the finally block.
CalAnalyse(open_values, closed_values) ==
    /\ cal_pc' = "analysed"
    /\ IF InsufficientData(open_values, closed_values)
       THEN /\ cal_result' = CalRaised("RuntimeError", "Insufficient calibration data")
            /\ call' = CalCall(TRUE)
            /\ config' = config
       ELSE CalSave(Mean(open_values), Mean(closed_values))

\* _capture_brightness_frames returns values: after the first phase the
\* second one starts, after the second one the lists are analysed.
CalPhaseEnd(phase, values, captured) ==
    IF phase = "open"
    THEN /\ open_eye_brightness' = open_eye_brightness \o values
         /\ cal_pc' = "closed_wait"
         /\ brightness_values' = <<>>
         /\ frames_captured' = 0
         /\ UNCHANGED <<closed_eye_brightness, cal_result, call, config>>
    ELSE /\ closed_eye_brightness' = closed_eye_brightness \o values
         /\ brightness_values' = values
         /\ frames_captured' = captured
         /\ open_eye_brightness' = open_eye_brightness
         /\ CalAnalyse(open_eye_brightness, closed_eye_brightness \o values)

CalPhase == IF cal_pc \in {"open_wait", "open_capture"} THEN "open" ELSE "closed"

\* The first loop of _capture_brightness_frames: SPACE starts the capture
\* (which captures nothing when target_frames is not positive), Q cancels.
CalWaitStep(key) ==
    IF key = "q" THEN CalCancelled
    ELSE IF frames_captured < frames_per_state
    THEN /\ cal_pc' = IF CalPhase = "open" THEN "open_capture"
                      ELSE "closed_capture"
         /\ UNCHANGED <<open_eye_brightness, closed_eye_brightness,
                        brightness_values, frames_captured, cal_frame,
                        cal_result, call, config>>
    ELSE /\ CalPhaseEnd(CalPhase, brightness_values, frames_captured)
         /\ cal_frame' = cal_frame

CalWaitKey ==
    /\ cal_pc \in {"open_wait", "closed_wait"}
    /\ \E key \in {" ", "q"} : CalWaitStep(key)
    /\ UNCHANGED <<checkerVars, streamVars, frames_per_state,
                   camera_ok, pending_key>>

\* One pass of the capture loop on a frame, once detect_face has answered
\* and the sample (if any) is computed.
CalFrameStep(phase, det, key, face_result, sample) ==
    IF key = "q" THEN CalCancelled
    ELSE /\ cal_frame' = [phase |-> phase, read |-> TRUE, det |-> det,
                          face_result |-> face_result, sampled |-> sample.sampled]
         /\ IF frames_captured + Len(sample.values) \div 2 < frames_per_state
            THEN /\ brightness_values' = brightness_values \o sample.values
                 /\ frames_captured' = frames_captured + Len(sample.values) \div 2
                 /\ UNCHANGED <<cal_pc, open_eye_brightness, closed_eye_brightness,
                                cal_result, call, config>>
            ELSE CalPhaseEnd(phase, brightness_values \o sample.values,
                             frames_captured + Len(sample.values) \div 2)

\* One pass of the capture loop of _capture_brightness_frames on a frame
\* the camera gave (a pass in which cap.read() gives none changes nothing).
CalCaptureFrame ==
    /\ cal_pc \in {"open_capture", "closed_capture"}
    /\ \E image \in CalFrames(CalPhase), det \in CalDetections,
          key \in {"none", "q"} :
         CalFrameStep(CalPhase, det, key, DetectFace(face_backend, image, det),
                      CalSample(image, DetectFace(face_backend, image, det)))
    /\ UNCHANGED <<checkerVars, streamVars, frames_per_state,
                   camera_ok, pending_key>>

\* The caller of calibrate_brightness_threshold takes the threshold or the
\* exception; the locals of the call are gone.
CalReturn ==
    /\ call.op = "calibrate_brightness_threshold"
    /\ call' = NoCall
    /\ frames_per_state' = 0
    /\ open_eye_brightness' = <<>>
    /\ closed_eye_brightness' = <<>>
    /\ brightness_values' = <<>>
    /\ frames_captured' = 0
    /\ cal_frame' = NoCalFrame
    /\ UNCHANGED <<checkerVars, streamVars, cal_pc, cal_result, config,
                   camera_ok, pending_key>>

\* checker.is_awake(frame) on a camera frame
IsAwakeFrameCall ==
    /\ Idle
    /\ \E image \in StreamFrames, det \in StreamDetections :
         call' = IsAwakeRecord(eye_analyzer, image, det,
                               DetectFace(face_backend, image, det),
                               IsAwake(face_backend, eye_analyzer, image, det))
    /\ UNCHANGED <<checkerVars, streamVars, calVars, config>>

\* CONFIG_FILE is absent or was left by an earlier calibration.
InitCalib ==
    /\ CheckerInit(DefaultThreshold, DefaultFramesRequired)
    /\ call = NoCall
    /\ StreamInit /\ CalInit
    /\ config \in {NoConfig, PriorConfig}

NextCalib ==
    \/ CalStart
    \/ CalWaitKey
    \/ CalCaptureFrame
    \/ CalReturn
    \/ IsAwakeFrameCall
    \/ Return

SpecCalib == InitCalib /\ [][NextCalib]_vars

\* The calibration alone, from its call to its return.
NextPhases ==
    \/ CalStart
    \/ CalWaitKey
    \/ CalCaptureFrame
    \/ CalReturn

SpecPhases == InitCalib /\ [][NextPhases]_vars

---------------------------------------------------------------------------
(* calibrate_threshold.py: the readers of CONFIG_FILE *)

\* A variant of LoadCalibratedThreshold: the file is not looked at.
LoadCalibratedThresholdIgnoringFile(store) == DefaultThreshold

\* load_calibrated_threshold(): 90 when the file is absent, cannot be read,
\* has no "threshold=" line, or has one whose value int() rejects (the
\* ValueError is caught).
LoadCalibratedThreshold(store) ==
    IF ~store.exists THEN DefaultThreshold
    ELSE IF ~store.readable THEN DefaultThreshold
    ELSE IF "threshold" \notin store.keys THEN DefaultThreshold
    ELSE IF "threshold" \in store.text THEN DefaultThreshold
    ELSE store.threshold

\* get_calibration_info(): None, or the dictionary of the "key=value" lines;
\* numbers are held in hundredths, a value that is no number stays a string.
NoInfo == [isNone |-> TRUE, keys |-> {}, text |-> {}, threshold |-> 0,
           open_avg |-> 0, closed_avg |-> 0, separation |-> 0]
GetCalibrationInfo(store) ==
    IF ~store.exists \/ ~store.readable THEN NoInfo
    ELSE [isNone |-> FALSE, keys |-> store.keys, text |-> store.text,
          threshold |-> IF "threshold" \in store.keys \ store.text
                        THEN store.threshold * 100 ELSE 0,
          open_avg |-> IF "open_avg" \in store.keys \ store.text
                       THEN store.open_avg ELSE 0,
          closed_avg |-> IF "closed_avg" \in store.keys \ store.text
                         THEN store.closed_avg ELSE 0,
          separation |-> IF "separation" \in store.keys \ store.text
                         THEN store.separation ELSE 0]

\* "30 <= threshold <= 200", on hundredths
ValidThreshold(threshold) ==
    MinThreshold * 100 <= threshold /\ threshold <= MaxThreshold * 100

MinSeparation == 10

\* validate_calibration() on the dictionary info: info.get(key, 0) for each
\* key; a comparison with a string raises TypeError, which is caught.
ValidateInfo(info) ==
    IF info.isNone \/ info.keys = {} THEN FALSE
    ELSE IF "threshold" \in info.text THEN FALSE
    ELSE IF ~ValidThreshold(info.threshold) THEN FALSE
    ELSE IF "separation" \in info.text THEN FALSE
    ELSE IF info.separation < MinSeparation * 100 THEN FALSE
    ELSE IF "closed_avg" \in info.text \/ "open_avg" \in info.text THEN FALSE
    ELSE IF info.closed_avg >= info.open_avg THEN FALSE
    ELSE TRUE

\* validate_calibration()
ValidateCalibration(store) == ValidateInfo(GetCalibrationInfo(store))

---------------------------------------------------------------------------
(* A calibration in dim light, and the file read back *)

\* What the camera shows: in the open phase a dim frame, a dim frame whose
\* right half is a little brighter, or a bright one; in the closed phase a
\* black frame.
DimFrames(phase) ==
    IF phase = "open"
    THEN {NdArray(RGBShape, FrameSplit, 10, 10),
          NdArray(RGBShape, FrameSplit, 10, 15),
          NdArray(RGBShape, FrameSplit, 255, 255)}
    ELSE {NdArray(RGBShape, FrameSplit, 0, 0)}

\* One face, with both eyes well inside the frame or with the right eye near
\* its lower right corner (21 x 19 pixels of its region are in the frame).
DimDetections ==
    {Detection(FALSE, 1, "full", <<33, 24>>, <<94, 24>>),
     Detection(FALSE, 1, "full", <<33, 24>>, <<116, 78>>)}

\* One pass of the capture loop of _capture_brightness_frames, on these
\* frames.
CalCaptureDimFrame ==
    /\ cal_pc \in {"open_capture", "closed_capture"}
    /\ \E image \in DimFrames(CalPhase), det \in DimDetections,
          key \in {"none", "q"} :
         CalFrameStep(CalPhase, det, key, DetectFace(face_backend, image, det),
                      CalSample(image, DetectFace(face_backend, image, det)))
    /\ UNCHANGED <<checkerVars, streamVars, frames_per_state,
                   camera_ok, pending_key>>

\* load_calibrated_threshold()
LoadCalibratedThresholdCall ==
    /\ Idle
    /\ call' = [NoCall EXCEPT !.op = "load_calibrated_threshold",
                              !.ret = LoadCalibratedThreshold(config)]
    /\ UNCHANGED <<checkerVars, streamVars, calVars, config>>

\* validate_calibration()
ValidateCalibrationCall ==
    /\ Idle
    /\ call' = [NoCall EXCEPT !.op = "validate_calibration",
                              !.ret = ValidateCalibration(config)]
    /\ UNCHANGED <<checkerVars, streamVars, calVars, config>>

\* A file whose threshold line was damaged ("threshold=abc").
TextThresholdConfig ==
    [PriorConfig EXCEPT !.text = {"threshold"}, !.threshold = 0]

InitRoundTrip ==
    /\ CheckerInit(DefaultThreshold, DefaultFramesRequired)
    /\ call = NoCall
    /\ StreamInit /\ CalInit
    /\ config \in {NoConfig, PriorConfig, TextThresholdConfig}

NextRoundTrip ==
    \/ CalStart
    \/ CalWaitKey
    \/ CalCaptureDimFrame
    \/ CalReturn
    \/ LoadCalibratedThresholdCall
    \/ ValidateCalibrationCall
    \/ Return

SpecRoundTrip == InitRoundTrip /\ [][NextRoundTrip]_vars

---------------------------------------------------------------------------
(* Building a checker from a file found on disk *)

\* Files a calibration may have written, or that were edited since.
StoredThresholds == {-1, 29, 30, 100, 200, 201, 300}
StoredAverages ==
    {<<15000, 6000, 9000>>, <<10000, 9000, 1000>>, <<10000, 9001, 999>>,
     <<6000, 6000, 1000>>, <<6000, 15000, -9000>>}
WrittenStores ==
    {[exists |-> TRUE, readable |-> TRUE, keys |-> ConfigKeys, text |-> {},
      threshold |-> t, open_avg |-> a[1], closed_avg |-> a[2],
      separation |-> a[3]] :
        t \in StoredThresholds, a \in StoredAverages}

\* Files with a line missing, with a value that is no number, with no line
\* at all, and a file that cannot be opened.
DamagedStores ==
    {[PriorConfig EXCEPT !.keys = ConfigKeys \ {k}] : k \in ConfigKeys}
    \cup {[PriorConfig EXCEPT !.text = {k}] : k \in ConfigKeys}
    \cup {[PriorConfig EXCEPT !.keys = {}],
          [PriorConfig EXCEPT !.readable = FALSE]}

Stores == {NoConfig, PriorConfig} \cup WrittenStores \cup DamagedStores

\* A variant of ConstructorFault: the frame count is not validated.
ConstructorFaultThresholdOnly(brightness_threshold_arg, frames_required_arg) ==
    IF ~(0 <= brightness_threshold_arg /\ brightness_threshold_arg <= 255)
    THEN "ValueError: Brightness threshold must be 0-255"
    ELSE "none"

\* "Validate parameters" of AwakenessChecker.__init__
ConstructorFault(brightness_threshold_arg, frames_required_arg) ==
    IF ~(0 <= brightness_threshold_arg /\ brightness_threshold_arg <= 255)
    THEN "ValueError: Brightness threshold must be 0-255"
    ELSE IF frames_required_arg < 1
    THEN "ValueError: Consecutive frames required must be >= 1"
    ELSE "none"

\* AwakenessChecker.__init__ once the threshold is known (given, or loaded
\* from the file): it raises on a bad parameter or when the detectors cannot
\* be built, and only then assigns the fields.
ConstructWith(threshold, required, loaded, detectors) ==
    IF ConstructorFault(threshold, required) # "none" \/ ~detectors
    THEN /\ call' = [NoCall EXCEPT !.op = "AwakenessChecker",
                                   !.arg = threshold, !.frames_arg = required,
                                   !.loaded = loaded, !.raised = TRUE,
                                   !.exc =
                                     IF ConstructorFault(threshold, required) # "none"
                                     THEN ConstructorFault(threshold, required)
                                     ELSE "RuntimeError: Failed to initialize detectors"]
         /\ UNCHANGED checkerVars
    ELSE /\ call' = [NoCall EXCEPT !.op = "AwakenessChecker",
                                   !.arg = threshold, !.frames_arg = required,
                                   !.loaded = loaded]
         /\ brightness_threshold' = threshold
         /\ eye_analyzer' = [brightness_threshold |-> threshold,
                             eye_region_size |->
                                <<DefaultRegionWidth, DefaultRegionHeight>>]
         /\ consecutive_frames_required' = required
         /\ consecutive_awake_count' = 0
         /\ face_backend' = face_backend

\* checker = AwakenessChecker(brightness_threshold, consecutive_frames_required)
\* with brightness_threshold given or None.
ConstructChecker ==
    /\ Idle
    /\ \E given \in BOOLEAN, threshold \in ThresholdArgs,
          required \in RequiredArgs, detectors \in BOOLEAN :
         ConstructWith(IF given THEN threshold
                       ELSE LoadCalibratedThreshold(config),
                       required, ~given, detectors)
    /\ UNCHANGED <<streamVars, calVars, config>>

InitConfig ==
    /\ CheckerInit(DefaultThreshold, DefaultFramesRequired)
    /\ call = NoCall
    /\ StreamInit /\ CalInit
    /\ config \in Stores

NextConfig ==
    \/ LoadCalibratedThresholdCall
    \/ ValidateCalibrationCall
    \/ ConstructChecker
    \/ SetBrightnessThreshold
    \/ SetConsecutiveFramesRequired
    \/ Return

SpecConfig == InitConfig /\ [][NextConfig]_vars

---------------------------------------------------------------------------
(* A calibration with its operator and its camera *)

\* What the two loops of _capture_brightness_frames read and write, the
\* key apart.
calLocals == <<cal_pc, open_eye_brightness, closed_eye_brightness,
               brightness_values, frames_captured, cal_frame, cal_result,
               call, config>>

\* The frames of the two phases, and a face found in them or not.
CancelFrames(phase) ==
    {NdArray(RGBShape, FrameSplit, t, t) :
        t \in IF phase = "open" THEN {150} ELSE {60}}
CancelDetections ==
    {Detection(FALSE, 1, "full", <<33, 24>>, <<94, 24>>),
     Detection(FALSE, 0, "full", <<33, 24>>, <<94, 24>>)}

\* The operator presses SPACE or Q; the key waits for the next cv2.waitKey.
OperatorPressesKey ==
    /\ CalRunning
    /\ pending_key = "none"
    /\ \E key \in {" ", "q"} : pending_key' = key
    /\ UNCHANGED <<checkerVars, streamVars, calLocals, frames_per_state,
                   camera_ok>>

\* The camera stops giving frames: from now on cap.read() returns
\* (False, None).
CameraFails ==
    /\ CalRunning
    /\ camera_ok
    /\ camera_ok' = FALSE
    /\ UNCHANGED <<checkerVars, streamVars, calLocals, frames_per_state,
                   pending_key>>

\* One pass of the first loop: "if not ret: continue" comes before
\* cv2.waitKey, which takes the pending key (or finds none).
CalWaitPass ==
    /\ cal_pc \in {"open_wait", "closed_wait"}
    /\ IF ~camera_ok
       THEN UNCHANGED <<calLocals, pending_key>>
       ELSE IF pending_key = "none"
       THEN UNCHANGED <<calLocals, pending_key>>
       ELSE /\ CalWaitStep(pending_key)
            /\ pending_key' = "none"
    /\ UNCHANGED <<checkerVars, streamVars, frames_per_state, camera_ok>>

\* One pass of the capture loop: "if not ret: continue" comes before the
\* detection and before cv2.waitKey.
CalCapturePass ==
    /\ cal_pc \in {"open_capture", "closed_capture"}
    /\ IF ~camera_ok
       THEN UNCHANGED <<calLocals, pending_key>>
       ELSE /\ \E image \in CancelFrames(CalPhase), det \in CancelDetections :
                 CalFrameStep(CalPhase, det, pending_key,
                              DetectFace(face_backend, image, det),
                              CalSample(image, DetectFace(face_backend, image, det)))
            /\ pending_key' = "none"
    /\ UNCHANGED <<checkerVars, streamVars, frames_per_state, camera_ok>>

NextCancel ==
    \/ CalStart
    \/ OperatorPressesKey
    \/ CameraFails
    \/ CalWaitPass
    \/ CalCapturePass
    \/ CalReturn

\* The loops keep running as long as the process does; nothing is assumed
\* of the operator or of the camera.
SpecCancel ==
    /\ InitCalib
    /\ [][NextCancel]_vars
    /\ WF_vars(CalWaitPass)
    /\ WF_vars(CalCapturePass)
    /\ WF_vars(CalReturn)

---------------------------------------------------------------------------
(* A calibration, then a checker that loads its threshold *)

\* A variant of ConstructCheckerLoading: the default threshold is used and
\* the file is not read.
ConstructCheckerLoadingNothing ==
    /\ Idle
    /\ \E detectors \in BOOLEAN :
         ConstructWith(DefaultThreshold, DefaultFramesRequired, TRUE, detectors)
    /\ UNCHANGED <<streamVars, calVars, config>>

\* checker = AwakenessChecker(): no threshold is given, the one of the file
\* is loaded.
ConstructCheckerLoading ==
    /\ Idle
    /\ \E detectors \in BOOLEAN :
         ConstructWith(LoadCalibratedThreshold(config), DefaultFramesRequired,
                       TRUE, detectors)
    /\ UNCHANGED <<streamVars, calVars, config>>

NextStartup ==
    \/ CalStart
    \/ CalWaitKey
    \/ CalCaptureDimFrame
    \/ CalReturn
    \/ LoadCalibratedThresholdCall
    \/ ValidateCalibrationCall
    \/ ConstructCheckerLoading
    \/ Return

SpecStartup == InitRoundTrip /\ [][NextStartup]_vars

---------------------------------------------------------------------------
(* Region extraction on the checker's eye analyzer *)

\* Region sizes (width, height): the default, an odd one, the smallest
\* accepted ones, and two that the setter rejects.
RegionSizes == {<<30, 20>>, <<31, 21>>, <<2, 2>>, <<1, 1>>, <<0, 20>>, <<30, -4>>}

\* Frames: colour, grey, an empty array, a 1-D array.
RegionFrames ==
    {NdArray(sh, FrameSplit, a, b) :
        sh \in {RGBShape, <<48, 64>>, <<0, 0, 3>>, <<64>>},
        a \in {0, 255}, b \in {255}}

\* Eye centres (x, y) in half pixels, for a 64 x 48 frame: those of
\* EyePositions, (-5, 12) outside the frame by less than half a region,
\* (63.5, 47.5) on the last pixel, (64, 12) just past the right edge,
\* (16.5, -15) above the frame.
EyeCentres ==
    EyePositions \cup {<<-10, 24>>, <<127, 95>>, <<128, 24>>, <<33, -30>>}

\* extract_eye_region asked with an explicit region_size (given) or with the
\* analyzer's configured size.
ExtractEyeRegionRecord(image, eye_center, region_size, given, extracted) ==
    [NoCall EXCEPT
       !.op = "extract_eye_region", !.image = image,
       !.eye_center = eye_center, !.region_size = region_size,
       !.given = given, !.region = extracted.region,
       !.raised = extracted.raised, !.exc = extracted.exc]

ExtractEyeRegionCall ==
    /\ Idle
    /\ \E image \in RegionFrames, eye_center \in EyeCentres,
          given \in BOOLEAN, size_arg \in RegionSizes :
         /\ ~given => size_arg = eye_analyzer.eye_region_size
         /\ call' = ExtractEyeRegionRecord(image, eye_center, size_arg, given,
                       ExtractEyeRegion(image, eye_center, size_arg))
    /\ UNCHANGED <<checkerVars, streamVars, calVars, config>>

\* EyeAwakenessAnalyzer.set_eye_region_size(new_size)
SetEyeRegionSize ==
    /\ Idle
    /\ \E new_size \in RegionSizes :
         IF new_size[1] <= 0 \/ new_size[2] <= 0
         THEN /\ call' = [NoCall EXCEPT
                            !.op = "set_eye_region_size",
                            !.region_size = new_size, !.raised = TRUE,
                            !.exc = "ValueError: Eye region size must be positive"]
              /\ UNCHANGED eye_analyzer
         ELSE /\ eye_analyzer' =
                    [eye_analyzer EXCEPT !.eye_region_size = new_size]
              /\ call' = [NoCall EXCEPT
                            !.op = "set_eye_region_size",
                            !.region_size = new_size]
    /\ UNCHANGED <<brightness_threshold, face_backend,
                   consecutive_frames_required, consecutive_awake_count,
                   streamVars, calVars, config>>

\* EyeAwakenessAnalyzer(brightness_threshold, eye_region_size): the caller
\* gets the new analyzer, or an exception and no analyzer.
AnalyzerInit ==
    /\ Idle
    /\ \E eye_region_size \in RegionSizes :
         IF eye_region_size[1] <= 0 \/ eye_region_size[2] <= 0
         THEN /\ call' = [NoCall EXCEPT
                            !.op = "EyeAwakenessAnalyzer",
                            !.region_size = eye_region_size, !.raised = TRUE,
                            !.exc = "ValueError: Eye region size must be positive"]
              /\ UNCHANGED eye_analyzer
         ELSE /\ eye_analyzer' =
                    [brightness_threshold |-> brightness_threshold,
                     eye_region_size |-> eye_region_size]
              /\ call' = [NoCall EXCEPT
                            !.op = "EyeAwakenessAnalyzer",
                            !.region_size = eye_region_size]
    /\ UNCHANGED <<brightness_threshold, face_backend,
                   consecutive_frames_required, consecutive_awake_count,
                   streamVars, calVars, config>>

InitRegion ==
    /\ CheckerInit(DefaultThreshold, DefaultFramesRequired)
    /\ call = NoCall
    /\ StreamInit /\ CalInit
    /\ config = NoConfig

NextRegion ==
    \/ ExtractEyeRegionCall
    \/ SetEyeRegionSize
    \/ AnalyzerInit
    \/ Return

SpecRegion == InitRegion /\ [][NextRegion]_vars

---------------------------------------------------------------------------
(* Properties of the single-frame check and of the eye analysis *)

\* The calls whose record holds a result of analyze_both_eyes on the picture.
EyesAnalyzed ==
    \/ call.op = "analyze_both_eyes"
    \/ call.op = "is_awake" /\ call.face_result.success

\* brightness > threshold, for a brightness num/den, written out.
Exceeds(brightness, threshold) == brightness.num > threshold * brightness.den

\* C1: is_awake returns True exactly when, for that frame, detect_face
\* reported success (the backend found exactly one face), the eye keypoints
\* were present, analyze_both_eyes reported analysis_successful and the
\* brightness of both eyes strictly exceeded the current threshold; in every
\* other case it returns False.
C1_AwakeOnlyIfAllChecksPass ==
    call.op = "is_awake" =>
        (call.ret <=>
            /\ call.face_result.success
            /\ call.det.faces = 1
            /\ ~call.face_result.keypoints.isNone
            /\ call.eye_result.analysis_successful
            /\ Exceeds(call.eye_result.left_eye.brightness,
                       eye_analyzer.brightness_threshold)
            /\ Exceeds(call.eye_result.right_eye.brightness,
                       eye_analyzer.brightness_threshold))

\* An is_awake call that returned True.
C1_Witness == call.op = "is_awake" /\ call.ret

\* C2: is_awake never raises: whatever the frame and whatever fails inside
\* (detection, region extraction, brightness), it returns a boolean, and a
\* frame on which something failed gives False.
C2_IsAwakeNeverRaises ==
    call.op = "is_awake" =>
        /\ ~call.raised
        /\ call.ret \in BOOLEAN
        /\ (~call.face_result.success \/ call.face_result.keypoints.isNone
              \/ ~call.eye_result.analysis_successful) => ~call.ret

\* An is_awake call on a frame with one face whose eye region could not be
\* extracted.
C2_Witness ==
    /\ call.op = "is_awake"
    /\ call.face_result.success
    /\ call.eye_result.error = "Left eye analysis failed"
    /\ ~call.raised /\ ~call.ret

\* Whether calculate_eye_brightness has a value for a region, and the number
\* of pixels it averages over, written out.
RegionReadable(region) ==
    /\ SeqProduct(region.shape) # 0
    /\ Len(region.shape) = 3 => region.shape[3] \in {3, 4}

\* C5: an eye is open iff its brightness was computed and is strictly
\* greater than the threshold: a brightness equal to the threshold is closed,
\* and a failure while computing it gives False (is_eye_open), and in
\* analyze_both_eyes each eye's is_open is "brightness > threshold".
C5_OpenIffStrictlyBrighter ==
    /\ call.op = "is_eye_open" =>
         /\ ~call.raised
         /\ call.ret <=>
              /\ RegionReadable(call.region)
              /\ call.region.sum > eye_analyzer.brightness_threshold
                                     * call.region.shape[1] * call.region.shape[2]
    /\ (EyesAnalyzed /\ call.eye_result.analysis_successful) =>
         /\ call.eye_result.left_eye.is_open <=>
              Exceeds(call.eye_result.left_eye.brightness,
                      eye_analyzer.brightness_threshold)
         /\ call.eye_result.right_eye.is_open <=>
              Exceeds(call.eye_result.right_eye.brightness,
                      eye_analyzer.brightness_threshold)

\* is_eye_open on a readable region whose brightness equals the threshold.
C5_Witness ==
    /\ call.op = "is_eye_open"
    /\ RegionReadable(call.region)
    /\ call.region.sum = eye_analyzer.brightness_threshold
                           * call.region.shape[1] * call.region.shape[2]
    /\ ~call.ret

\* C6: in every result of analyze_both_eyes, both_eyes_open implies that
\* both eyes are open, and when the analysis succeeded both_eyes_open is
\* exactly the conjunction of the two flags.
C6_BothOpenIsConjunction ==
    EyesAnalyzed =>
        /\ call.eye_result.both_eyes_open =>
             (call.eye_result.left_eye.is_open /\ call.eye_result.right_eye.is_open)
        /\ call.eye_result.analysis_successful =>
             (call.eye_result.both_eyes_open <=>
                (call.eye_result.left_eye.is_open
                   /\ call.eye_result.right_eye.is_open))

\* A successful analysis with the left eye open and the right eye closed.
C6_Witness ==
    /\ call.op = "analyze_both_eyes"
    /\ call.eye_result.analysis_successful
    /\ call.eye_result.left_eye.is_open
    /\ ~call.eye_result.right_eye.is_open
    /\ ~call.eye_result.both_eyes_open

\* Whether region extraction or the brightness computation fails for an eye
\* of the picture of the recorded call.
EyeFails(eye_pos) ==
    \/ ExtractEyeRegion(call.image, eye_pos, eye_analyzer.eye_region_size).raised
    \/ CalculateEyeBrightness(
           ExtractEyeRegion(call.image, eye_pos,
                            eye_analyzer.eye_region_size).region).raised

\* C7: when extraction or brightness computation fails for an eye,
\* analyze_both_eyes returns a result with analysis_successful = False,
\* both_eyes_open = False and an error that names the eye that failed (the
\* left one, or the right one when the left one was analysed).
C7_EyeFailureIsReported ==
    (call.op = "analyze_both_eyes" /\ call.image.kind = "ndarray"
       /\ ArraySize(call.image) # 0) =>
        /\ EyeFails(call.left_eye_pos) =>
             /\ ~call.raised
             /\ ~call.eye_result.analysis_successful
             /\ ~call.eye_result.both_eyes_open
             /\ call.eye_result.error = "Left eye analysis failed"
        /\ (~EyeFails(call.left_eye_pos) /\ EyeFails(call.right_eye_pos)) =>
             /\ ~call.raised
             /\ ~call.eye_result.analysis_successful
             /\ ~call.eye_result.both_eyes_open
             /\ call.eye_result.error = "Right eye analysis failed"
        /\ (~EyeFails(call.left_eye_pos) /\ ~EyeFails(call.right_eye_pos)) =>
             call.eye_result.error = "None"

\* The left eye was analysed and found open, the right eye's region failed.
C7_Witness ==
    /\ call.op = "analyze_both_eyes"
    /\ call.eye_result.left_eye.is_open
    /\ EyeFails(call.right_eye_pos)
    /\ call.eye_result.error = "Right eye analysis failed"

---------------------------------------------------------------------------
(* Properties of check_video_stream *)

\* A stream is being monitored, or has just returned to its caller.
StreamObserved == stream_pc = "loop" \/ call.op = "check_video_stream"

\* The n most recently processed frames of the stream were all awake.
LastAwake(n) ==
    /\ Len(verdicts) >= n
    /\ \A i \in (Len(verdicts) - n + 1)..Len(verdicts) : verdicts[i]

IsPrefix(s, t) == Len(s) <= Len(t) /\ \A i \in 1..Len(s) : s[i] = t[i]

\* C3: starting from count 0 with required = N, check_video_stream returns
\* True exactly when the N most recently processed frames were all awake;
\* the verdicts [true, true, true] with required = 3 end verified with
\* count = 3, and no prefix of [true, true, false, true, true] with
\* required = 3 is verified.
C3_VerifiedIffLastNAwake ==
    StreamObserved =>
        /\ (stream_result = "True") <=> LastAwake(consecutive_frames_required)
        /\ (consecutive_frames_required = 3 /\ verdicts = <<TRUE, TRUE, TRUE>>) =>
             (stream_result = "True" /\ consecutive_awake_count = 3)
        /\ (consecutive_frames_required = 3
              /\ IsPrefix(verdicts, <<TRUE, TRUE, FALSE, TRUE, TRUE>>)) =>
             stream_result # "True"

\* The stream [true, true, false, true, true] was monitored with required = 3.
C3_Witness ==
    /\ StreamObserved
    /\ consecutive_frames_required = 3
    /\ verdicts = <<TRUE, TRUE, FALSE, TRUE, TRUE>>
    /\ consecutive_awake_count = 2

\* C4: for every frame handled by the monitoring loop, an awake verdict sets
\* consecutive_awake_count to its previous value plus 1 and any other frame
\* (not awake, or failed) sets it to 0; a pass of the loop that handles no
\* frame leaves it.
C4_CounterTransition ==
    [][stream_pc = "loop" =>
         /\ Len(verdicts') = Len(verdicts) + 1 =>
              consecutive_awake_count' =
                 IF verdicts'[Len(verdicts')] THEN consecutive_awake_count + 1
                 ELSE 0
         /\ verdicts' = verdicts =>
              consecutive_awake_count' = consecutive_awake_count]_vars

\* A frame on which detection failed came after an awake frame and set the
\* count to 0.
C4_Witness ==
    /\ call.op = "stream_frame"
    /\ Len(verdicts) >= 2
    /\ verdicts[Len(verdicts) - 1]
    /\ ~verdicts[Len(verdicts)]
    /\ ~call.face_result.success
    /\ consecutive_awake_count = 0

---------------------------------------------------------------------------
(* Properties of detection failures and of the calibration *)

CalCapturing == cal_pc \in {"open_capture", "closed_capture"}

\* What detect_face may answer when the backend found det.faces faces.
OneFaceOrError(det, face_result) ==
    /\ face_result.success => (det.faces = 1 /\ ~det.raises)
    /\ det.faces # 1 =>
         (~face_result.success /\ face_result.error \notin {"None", ""})

\* C8: detect_face reports success only when the backend found exactly one
\* face; with no face and with several faces it reports a failure with a
\* non-empty error, is_awake then returns False, and the capture loop of the
\* calibration then adds nothing to brightness_values and does not count the
\* frame.
C8_OneFaceOrBlocked ==
    /\ [](/\ call.op = "is_awake" =>
               /\ OneFaceOrError(call.det, call.face_result)
               /\ call.det.faces # 1 => (call.ret = FALSE /\ ~call.raised)
          /\ cal_frame.read =>
               /\ OneFaceOrError(cal_frame.det, cal_frame.face_result)
               /\ cal_frame.det.faces # 1 => ~cal_frame.sampled)
    /\ [][(CalCapturing /\ cal_frame'.read /\ cal_frame'.det.faces # 1) =>
            /\ brightness_values' = brightness_values
            /\ frames_captured' = frames_captured
            /\ cal_pc' = cal_pc]_vars

\* A frame with two faces was skipped by the capture loop after a frame
\* that was captured.
C8_Witness ==
    /\ CalCapturing
    /\ cal_frame.read
    /\ cal_frame.det.faces = 2
    /\ ~cal_frame.face_result.success
    /\ ~cal_frame.sampled
    /\ frames_captured = 1
    /\ Len(brightness_values) = 2

\* calibrate_brightness_threshold has gone past both phases and has just
\* returned or raised.
CalAnalysed ==
    cal_pc = "analysed" /\ call.op = "calibrate_brightness_threshold"

\* clamp(floor((openMean + closedMean)/2 - 5), 30, 200)
FloorThreshold(openMean, closedMean) ==
    LET floored == RatFloor(RatSub(RatDivInt(RatAdd(openMean, closedMean), 2),
                                   Rat(5, 1)))
    IN  IF floored < 30 THEN 30 ELSE IF floored > 200 THEN 200 ELSE floored

\* C9: when both lists hold at least 5 values, the calibration returns
\* clamp(floor((openMean + closedMean)/2 - 5), 30, 200), and that is the
\* threshold in CONFIG_FILE when it was written; means of 150 and 60 give 100.
C9_ThresholdIsClampedFloor ==
    (CalAnalysed /\ Len(open_eye_brightness) >= 5
                 /\ Len(closed_eye_brightness) >= 5) =>
        /\ cal_result.kind = "returned"
        /\ cal_result.threshold =
              FloorThreshold(Mean(open_eye_brightness), Mean(closed_eye_brightness))
        /\ cal_result.saved =>
              (config.exists /\ config.threshold = cal_result.threshold)
        /\ (Mean(open_eye_brightness) = Rat(150, 1)
              /\ Mean(closed_eye_brightness) = Rat(60, 1)) =>
              cal_result.threshold = 100

\* Means of 150 and 60 were calibrated to 100, and 100 was saved.
C9_Witness ==
    /\ CalAnalysed
    /\ Len(open_eye_brightness) >= 5
    /\ Len(closed_eye_brightness) >= 5
    /\ Mean(open_eye_brightness) = Rat(150, 1)
    /\ Mean(closed_eye_brightness) = Rat(60, 1)
    /\ cal_result.threshold = 100
    /\ cal_result.saved
    /\ config.threshold = 100

\* C10: when after both phases one of the lists holds fewer than 5 values,
\* the calibration raises RuntimeError("Insufficient calibration data ...")
\* and no step of the run has changed CONFIG_FILE: the only steps that
\* change it end a run whose lists both hold at least 5 values.
C10_InsufficientDataNotSaved ==
    /\ []((CalAnalysed /\ (Len(open_eye_brightness) < 5
                             \/ Len(closed_eye_brightness) < 5)) =>
            /\ cal_result.kind = "RuntimeError"
            /\ cal_result.error = "Insufficient calibration data"
            /\ call.raised
            /\ ~cal_result.saved)
    /\ [][config' # config =>
            /\ cal_pc' = "analysed"
            /\ Len(open_eye_brightness') >= 5
            /\ Len(closed_eye_brightness') >= 5]_vars

\* A run with 4 values in each list failed and left the earlier file.
C10_Witness ==
    /\ CalAnalysed
    /\ Len(open_eye_brightness) = 4
    /\ Len(closed_eye_brightness) = 4
    /\ cal_result.kind = "RuntimeError"
    /\ config = PriorConfig

\* Means of 3 and 0: int() and floor differ before the clamp.
TruncationDiffersFromFloor ==
    /\ CalAnalysed
    /\ Len(open_eye_brightness) >= 5
    /\ Mean(open_eye_brightness) = Rat(3, 1)
    /\ Mean(closed_eye_brightness) = Rat(0, 1)
    /\ cal_result.threshold = 30

\* Means of 255 and 255: the upper clamp.
UpperClampReached ==
    /\ CalAnalysed
    /\ Len(open_eye_brightness) >= 5
    /\ Mean(open_eye_brightness) = Rat(255, 1)
    /\ Mean(closed_eye_brightness) = Rat(255, 1)
    /\ cal_result.threshold = 200

\* The operator has pressed Q and the calibration has just raised.
CalAborted ==
    /\ cal_pc = "aborted"
    /\ call.op = "calibrate_brightness_threshold"
    /\ cal_result.kind = "KeyboardInterrupt"

\* C11: when Q is pressed while waiting for SPACE or during capture, in the
\* open or in the closed phase, the calibration raises without saving, and
\* no step of such a run (no step that does not end the run past both
\* phases) changes CONFIG_FILE.
C11_CancelLeavesConfig ==
    /\ [](CalAborted =>
            /\ call.raised
            /\ ~cal_result.saved
            /\ cal_result.at \in {"open_wait", "open_capture",
                                  "closed_wait", "closed_capture"})
    /\ [][(CalRunning /\ cal_pc' # "analysed") => config' = config]_vars

\* Q was pressed during the capture of the closed phase and the earlier file
\* is as it was.
C11_Witness ==
    /\ CalAborted
    /\ cal_result.at = "closed_capture"
    /\ config = PriorConfig

---------------------------------------------------------------------------
(* Properties of the persisted calibration *)

\* The calibration has returned a threshold to its caller.
CalReturned ==
    call.op = "calibrate_brightness_threshold" /\ cal_result.kind = "returned"

\* C12: each calibration fault is an explicit failure for the caller: too
\* few samples, a file that could not be written, and a file whose threshold
\* entry is no number each make the call raise.
C12_FaultsSurfaced ==
    /\ (CalAnalysed /\ InsufficientData(open_eye_brightness, closed_eye_brightness))
          => call.raised
    /\ (CalReturned /\ ~cal_result.saved) => call.raised
    /\ (call.op = "load_calibrated_threshold" /\ config.exists
          /\ "threshold" \in config.text) => call.raised

\* The validity rule on the values of a calibration result, before they are
\* written.
ValidResult(result) ==
    /\ 30 <= result.threshold /\ result.threshold <= 200
    /\ ~RatLess(result.separation, Rat(10, 1))
    /\ RatLess(result.closed_avg, result.open_avg)

\* The calibration of this run returned a threshold and wrote the file.
SavedThisRun == cal_result.kind = "returned" /\ cal_result.saved

\* C13: after a calibration saved a result with threshold T,
\* load_calibrated_threshold returns T and validate_calibration returns what
\* the validity rule gives on the result's own threshold, means and
\* separation.
C13_RoundTrip ==
    SavedThisRun =>
        /\ call.op = "load_calibrated_threshold" => call.ret = cal_result.threshold
        /\ call.op = "validate_calibration" => call.ret = ValidResult(cal_result)

---------------------------------------------------------------------------
(* Properties of the checker's setters and constructor *)

\* C17: set_consecutive_frames_required(n) with n < 1 raises and leaves the
\* required count and the counter; with n >= 1 it sets the required count to
\* n and the counter to 0, whatever the counter was.
C17_SetRequiredValidatesAndResets ==
    [][(call.op = "none" /\ call'.op = "set_consecutive_frames_required") =>
         IF call'.frames_arg < 1
         THEN /\ call'.raised
              /\ consecutive_frames_required' = consecutive_frames_required
              /\ consecutive_awake_count' = consecutive_awake_count
         ELSE /\ ~call'.raised
              /\ consecutive_frames_required' = call'.frames_arg
              /\ consecutive_awake_count' = 0]_vars

\* After a stream was verified with 3 frames, the required count was set
\* to 2 and the counter is 0.
C17_Witness ==
    /\ call.op = "set_consecutive_frames_required"
    /\ ~call.raised
    /\ call.frames_arg = 2
    /\ stream_result = "True"
    /\ Len(verdicts) = 3
    /\ consecutive_frames_required = 2
    /\ consecutive_awake_count = 0

\* C18: reset_consecutive_count sets the counter to 0 from every state (no
\* awake frame yet, some awake frames, verified; also right after a reset)
\* and leaves the required count and the brightness threshold.
C18_ResetClearsCountOnly ==
    [][(call.op = "none" /\ call'.op = "reset_consecutive_count") =>
         /\ consecutive_awake_count' = 0
         /\ ~call'.raised
         /\ consecutive_frames_required' = consecutive_frames_required
         /\ brightness_threshold' = brightness_threshold
         /\ eye_analyzer' = eye_analyzer]_vars

\* The counter was reset after a stream that was left with awake frames
\* counted but not verified.
C18_Witness ==
    /\ call.op = "reset_consecutive_count"
    /\ stream_result = "False"
    /\ Len(verdicts) >= 1
    /\ verdicts[Len(verdicts)]
    /\ consecutive_awake_count = 0

---------------------------------------------------------------------------
(* Properties of the file readers and of the construction *)

\* The file holds numbers only, and can be read if it exists.
StoreOfNumbers == config.text = {} /\ (config.exists => config.readable)

\* C14: validate_calibration reports invalid when the threshold is outside
\* [30,200], or the separation is below 10, or the closed mean is not below
\* the open mean, and also when the file does not exist or a key is missing;
\* it reports valid exactly when none of these holds.
C14_ValidIffNoDefect ==
    (call.op = "validate_calibration" /\ StoreOfNumbers) =>
        (call.ret <=>
            /\ config.exists
            /\ config.keys = ConfigKeys
            /\ 30 <= config.threshold /\ config.threshold <= 200
            /\ config.separation >= 1000
            /\ config.closed_avg < config.open_avg)

\* C15: load_calibrated_threshold never raises; it returns 90 when the file
\* does not exist or has no threshold key, and the stored integer when the
\* file has a threshold key holding one.
C15_LoadDefaultsTo90 ==
    call.op = "load_calibrated_threshold" =>
        /\ ~call.raised
        /\ (~config.exists \/ "threshold" \notin config.keys) => call.ret = 90
        /\ (config.exists /\ config.readable
              /\ "threshold" \in config.keys \ config.text) =>
              call.ret = config.threshold

\* The threshold 200 was loaded from a file.
C15_Witness ==
    /\ call.op = "load_calibrated_threshold"
    /\ config.exists
    /\ "threshold" \in config.keys
    /\ config.threshold = 200
    /\ call.ret = 200

\* C19: whatever set_brightness_threshold and
\* set_consecutive_frames_required calls were made, accepted or rejected,
\* the threshold of the checker and of its eye analyzer is in [0,255] and
\* consecutive_frames_required is at least 1.
C19_ParametersStayValid ==
    /\ 0 <= brightness_threshold /\ brightness_threshold <= 255
    /\ 0 <= eye_analyzer.brightness_threshold
    /\ eye_analyzer.brightness_threshold <= 255
    /\ consecutive_frames_required >= 1

\* The threshold 256 was rejected on a checker whose threshold is 255.
C19_Witness ==
    /\ call.op = "set_brightness_threshold"
    /\ call.raised
    /\ call.arg = 256
    /\ brightness_threshold = 255
    /\ eye_analyzer.brightness_threshold = 255

\* C20: AwakenessChecker(...) with a threshold outside [0,255], given or
\* loaded from the file, or with consecutive_frames_required < 1, raises,
\* and none of the checker's fields is assigned; when it does not raise the
\* fields hold the threshold and the frame count.
C20_BadParametersStopConstruction ==
    [][(call.op = "none" /\ call'.op = "AwakenessChecker") =>
         /\ (call'.arg < 0 \/ call'.arg > 255 \/ call'.frames_arg < 1) =>
               (call'.raised /\ UNCHANGED checkerVars)
         /\ call'.raised => UNCHANGED checkerVars
         /\ ~call'.raised =>
               /\ brightness_threshold' = call'.arg
               /\ eye_analyzer'.brightness_threshold = call'.arg
               /\ consecutive_frames_required' = call'.frames_arg
               /\ consecutive_awake_count' = 0]_vars

\* The threshold 300 was loaded from the file and the construction raised.
C20_Witness ==
    /\ call.op = "AwakenessChecker"
    /\ call.loaded
    /\ call.arg = 300
    /\ call.frames_arg >= 1
    /\ call.raised

---------------------------------------------------------------------------
(* Properties of the region extraction *)

\* The frame of the call is a 2-D or 3-D array.
FrameGiven == call.op = "extract_eye_region" /\ Len(call.image.shape) \in {2, 3}

\* The region returned has the height and the width asked for.
ConfiguredSizeReturned ==
    /\ ~call.raised
    /\ Len(call.region.shape) >= 2
    /\ call.region.shape[1] = call.region_size[2]
    /\ call.region.shape[2] = call.region_size[1]

\* The box of half-extents around the truncated centre, clamped to the
\* frame, has a positive width and a positive height.
ClampedBoxNotEmpty ==
    LET cx == IntOfHalves(call.eye_center[1])
        cy == IntOfHalves(call.eye_center[2])
        hw == call.region_size[1] \div 2
        hh == call.region_size[2] \div 2
    IN  /\ Max(0, cx - hw) < Min(call.image.shape[2], cx + hw)
        /\ Max(0, cy - hh) < Min(call.image.shape[1], cy + hh)

\* C16 as stated: region extraction always returns a buffer of exactly the
\* configured size (height x width), for eye centres inside the frame, at its
\* edge and outside the frame bounds.  (Stated for non-empty frames and
\* sizes of at least 2 x 2; the centres range over EyeCentres.)
C16_AlwaysConfiguredSize ==
    (/\ FrameGiven
     /\ call.image.shape[1] > 0 /\ call.image.shape[2] > 0
     /\ call.region_size[1] >= 2 /\ call.region_size[2] >= 2)
        => ConfiguredSizeReturned

\* C16 amended: region extraction returns a buffer of exactly the configured
\* size (height x width) whenever the crop box (centre +/- size // 2, clamped
\* to the frame) has positive width and height: centres inside the frame, at
\* its edge, and outside it by less than half a region.  When the box has no
\* extent, as for a centre farther outside, it raises ValueError ("Invalid
\* eye region") and returns no buffer.
C16_ConfiguredSizeOrInvalidRegion ==
    FrameGiven =>
        IF ClampedBoxNotEmpty
        THEN ConfiguredSizeReturned
        ELSE /\ call.raised
             /\ call.exc = "ValueError: Invalid eye region"
             /\ call.region = NoRegion

\* A centre 5 pixels left of the frame gave a padded 30 x 20 region.
C16_Witness ==
    /\ FrameGiven
    /\ call.image.shape = RGBShape
    /\ call.eye_center = <<-10, 24>>
    /\ call.region_size = <<30, 20>>
    /\ ~call.raised
    /\ call.region.shape = <<20, 30, 3>>

\* C25: extract_eye_region fails with the invalid-region error exactly when
\* the crop box clamped to the frame has zero or negative extent in x or in
\* y; for every other centre it returns a region and does not fail.
C25_InvalidRegionIffEmptyBox ==
    FrameGiven =>
        /\ (call.raised /\ call.exc = "ValueError: Invalid eye region")
              <=> ~ClampedBoxNotEmpty
        /\ call.raised <=> call.region = NoRegion
        /\ call.raised <=> ~ClampedBoxNotEmpty

\* The centre (16, 100), below a 64 x 48 frame, failed with the
\* invalid-region error for a 30 x 20 box.
C25_Witness ==
    /\ FrameGiven
    /\ call.image.shape = RGBShape
    /\ call.eye_center = <<32, 200>>
    /\ call.region_size = <<30, 20>>
    /\ call.raised
    /\ call.exc = "ValueError: Invalid eye region"

\* A size with a width or a height that is not positive.
SizeNotPositive(size) == size[1] <= 0 \/ size[2] <= 0

\* C26: every way of giving a region size whose width or height is <= 0 is
\* rejected as an invalid parameter: the constructor, set_eye_region_size and
\* extract_eye_region with an explicit region_size all fail with the
\* invalid-parameter error (not the invalid-region error) and leave the
\* analyzer's configured size unchanged.
C26_NonPositiveSizeIsInvalidParameter ==
    [][(/\ call.op = "none"
        /\ \/ call'.op \in {"EyeAwakenessAnalyzer", "set_eye_region_size"}
           \/ call'.op = "extract_eye_region" /\ call'.given
                /\ Len(call'.image.shape) \in {2, 3}
        /\ SizeNotPositive(call'.region_size))
         => /\ call'.raised
            /\ call'.exc = "ValueError: Eye region size must be positive"
            /\ eye_analyzer'.eye_region_size = eye_analyzer.eye_region_size]_vars

\* The centre of the call lies inside the frame, which is not empty.
CentreInsideFrame ==
    /\ call.image.shape[1] > 0 /\ call.image.shape[2] > 0
    /\ 0 <= call.eye_center[1] /\ call.eye_center[1] < 2 * call.image.shape[2]
    /\ 0 <= call.eye_center[2] /\ call.eye_center[2] < 2 * call.image.shape[1]

\* C27: for every region size the analyzer accepts (width >= 1 and
\* height >= 1, 1 and odd values included) and every eye centre inside a
\* non-empty frame, extract_eye_region succeeds and returns a region of
\* exactly that size.
C27_AcceptedSizeExtractsInside ==
    (/\ FrameGiven
     /\ ~call.given
     /\ CentreInsideFrame)
        => ConfiguredSizeReturned

---------------------------------------------------------------------------
(* Properties of a session *)

\* C22: whatever the order of check_video_stream frames,
\* reset_consecutive_count and set_consecutive_frames_required,
\* 0 <= consecutive_awake_count <= consecutive_frames_required;
\* check_video_stream returns True at the first frame where the counter
\* equals the required count (while it loops the counter is below it), so
\* the counter never exceeds it.
C22_CountWithinRequired ==
    /\ 0 <= consecutive_awake_count
    /\ consecutive_awake_count <= consecutive_frames_required
    /\ stream_pc = "loop" =>
          consecutive_awake_count < consecutive_frames_required
    /\ (call.op = "check_video_stream" /\ call.ret) =>
          consecutive_awake_count = consecutive_frames_required

\* A stream returned True with the counter at the required count, 3.
C22_Witness ==
    /\ call.op = "check_video_stream"
    /\ call.ret
    /\ consecutive_awake_count = 3
    /\ consecutive_frames_required = 3

\* C23: is_awake (and quick_awakeness_test, and a loop built on is_awake)
\* leaves consecutive_awake_count, consecutive_frames_required and the
\* brightness threshold as they were, whatever the verdict; the counter
\* grows only in a pass of the loop of check_video_stream.
C23_IsAwakeLeavesDebounceState ==
    /\ [][(call.op = "none"
             /\ call'.op \in {"is_awake", "quick_awakeness_test"})
           => /\ consecutive_awake_count' = consecutive_awake_count
              /\ consecutive_frames_required' = consecutive_frames_required
              /\ brightness_threshold' = brightness_threshold
              /\ eye_analyzer' = eye_analyzer]_vars
    /\ [][consecutive_awake_count' > consecutive_awake_count
           => (stream_pc = "loop" /\ Len(verdicts') = Len(verdicts) + 1)]_vars

\* is_awake said True while the counter, left at 2 by a stream that was
\* quit, stayed at 2.
C23_Witness ==
    /\ call.op = "is_awake"
    /\ call.ret
    /\ consecutive_awake_count = 2
    /\ stream_result = "False"

---------------------------------------------------------------------------
(* Properties of the two phases of a calibration *)

\* C21: in each phase a frame gives either exactly 2 brightness values and
\* counts toward the target, or no value and does not count (no single face,
\* no keypoints, or a fault on either eye); so the number of values is always
\* 2 x frames_captured, and a phase that ends normally returns exactly
\* 2 x target_frames values.
C21_TwoSamplesPerCountedFrame ==
    /\ [](Len(brightness_values) = 2 * frames_captured)
    /\ [](cal_pc \in {"closed_wait", "closed_capture"}
            => Len(open_eye_brightness) = 2 * frames_per_state)
    /\ [](CalAnalysed =>
            /\ Len(open_eye_brightness) = 2 * frames_per_state
            /\ Len(closed_eye_brightness) = 2 * frames_per_state)
    /\ [][(CalCapturing /\ cal_pc' = cal_pc) =>
            \/ /\ cal_frame'.sampled
               /\ cal_frame'.face_result.success
               /\ Len(brightness_values') = Len(brightness_values) + 2
               /\ SubSeq(brightness_values', 1, Len(brightness_values))
                     = brightness_values
               /\ frames_captured' = frames_captured + 1
            \/ /\ ~cal_frame'.sampled
               /\ brightness_values' = brightness_values
               /\ frames_captured' = frames_captured]_vars

\* In the closed phase a frame whose left eye is outside the picture was
\* skipped after one frame had been counted.
C21_Witness ==
    /\ cal_pc = "closed_capture"
    /\ cal_frame.face_result.success
    /\ ~cal_frame.sampled
    /\ frames_captured = 1
    /\ Len(brightness_values) = 2
    /\ Len(open_eye_brightness) = 2 * frames_per_state

\* C28: when both phases end normally (no cancellation), the
\* insufficient-data failure occurs if and only if frames_per_state < 3:
\* each list then holds exactly 2 x frames_per_state values.
C28_InsufficientIffBelowThreeFrames ==
    CalAnalysed =>
        /\ (/\ call.raised
            /\ cal_result.kind = "RuntimeError"
            /\ cal_result.error = "Insufficient calibration data")
              <=> frames_per_state < 3
        /\ cal_result.kind = "returned" <=> frames_per_state >= 3

\* Three frames per phase gave a threshold, and nothing was raised.
C28_Witness ==
    /\ CalAnalysed
    /\ frames_per_state = 3
    /\ Len(open_eye_brightness) = 6
    /\ Len(closed_eye_brightness) = 6
    /\ cal_result.kind = "returned"
    /\ ~call.raised

\* separation > bound, for a separation in lowest terms
SeparationAbove(bound) ==
    cal_result.separation.num > bound * cal_result.separation.den

\* C30: the separation label is advisory only: above 50 it is "excellent",
\* above 30 "good", above 15 "moderate", otherwise "poor" (50, 30 and 15
\* themselves get the lower label), and a calibration with at least 5 values
\* in each list goes on to save its result whatever the separation is, also
\* when it is zero or negative.
C30_SeparationLabelAdvisory ==
    /\ (CalAnalysed /\ Len(open_eye_brightness) >= 5
                    /\ Len(closed_eye_brightness) >= 5)
          => /\ cal_result.kind = "returned"
             /\ ~call.raised
    /\ cal_result.kind = "returned" =>
          /\ cal_result.quality =
                IF SeparationAbove(50) THEN "excellent"
                ELSE IF SeparationAbove(30) THEN "good"
                ELSE IF SeparationAbove(15) THEN "moderate"
                ELSE "poor"
          /\ cal_result.saved =>
                /\ config.exists
                /\ config.threshold = cal_result.threshold
                /\ config.separation = Format2f(cal_result.separation)

\* A separation of exactly 50 was labelled "good", and the result saved.
C30_Witness ==
    /\ CalAnalysed
    /\ cal_result.separation = Rat(50, 1)
    /\ cal_result.quality = "good"
    /\ cal_result.saved

\* A negative separation was labelled "poor", and the result saved.
C30_NegativeSeparationSaved ==
    /\ CalAnalysed
    /\ cal_result.separation.num < 0
    /\ cal_result.quality = "poor"
    /\ cal_result.saved
    /\ config.separation < 0

---------------------------------------------------------------------------
(* Properties of the threshold a calibration leaves in the file *)

\* C29: every threshold a completed calibration writes to the file is an
\* integer in [30,200]; so a checker constructed afterwards without a
\* threshold loads it and passes the [0,255] validation of the constructor,
\* and validate_calibration never fails on the threshold of a file written
\* by the calibration.
C29_PersistedThresholdInRange ==
    /\ [](SavedThisRun =>
            /\ config.exists /\ "threshold" \in config.keys \ config.text
            /\ config.threshold = cal_result.threshold
            /\ config.threshold \in 30..200)
    /\ []((SavedThisRun /\ call.op = "AwakenessChecker" /\ call.loaded) =>
            /\ call.arg = config.threshold
            /\ call.exc \notin {"ValueError: Brightness threshold must be 0-255",
                                "ValueError: Consecutive frames required must be >= 1"}
            /\ ~call.raised =>
                  /\ brightness_threshold = config.threshold
                  /\ eye_analyzer.brightness_threshold = config.threshold)
    /\ []((SavedThisRun /\ call.op = "validate_calibration" /\ ~call.ret) =>
            \/ config.separation < 100 * MinSeparation
            \/ config.closed_avg >= config.open_avg)

\* After a calibration that saved the threshold 30, a checker was
\* constructed without a threshold and works with 30.
C29_Witness ==
    /\ SavedThisRun
    /\ config.threshold = 30
    /\ call.op = "AwakenessChecker"
    /\ call.loaded
    /\ ~call.raised
    /\ brightness_threshold = 30

---------------------------------------------------------------------------
(* Properties of the cancellation *)

\* C24: once the operator has pressed Q during a phase, in the loop that
\* waits for SPACE or in the capture loop, _capture_brightness_frames ends
\* with the cancellation, whether or not the camera gives frames and whether
\* or not a face is found.
C24_CancelEventuallyHonoured ==
    (CalRunning /\ pending_key = "q")
        ~> (cal_pc = "aborted" /\ cal_result.kind = "KeyboardInterrupt")

===========================================================================
